---- MODULE Spec2Model ----
(***************************************************************************)
(* A model of src/xsd_to_xml.py: the schema-driven XML sample generator.   *)
(*                                                                         *)
(* The parsed schema document is a table of nodes (id -> record); node 1   *)
(* is the xs:schema root and `kids` lists a node's child nodes in document *)
(* order.  Attribute values that the code splits on ":" (type, ref, base)  *)
(* are kept as the list that str.split(":") returns, <<>> standing for an  *)
(* absent attribute; the other attributes are strings, None when absent.   *)
(* The output document is the sequence `elems` of generated elements in    *)
(* creation order; an element's children are the later elements naming it  *)
(* as parent, in that order (etree.SubElement appends).                    *)
(* The recursion of _generate_xml_element / _process_content_model is the  *)
(* explicit call stack `stack`; every random draw is a nondeterministic    *)
(* choice.                                                                 *)
(***************************************************************************)
EXTENDS Integers, Sequences, FiniteSets, TLC

VARIABLES
    schema,          \* self.schema_doc: the parsed schema (node table)
    complex_types,   \* self.complex_types: name -> node id
    simple_types,    \* self.simple_types: name -> node id
    namespace_map,   \* self.namespace_map: None or the target namespace
    elems,           \* the tree under root_element of the current generate_xml call
    stack,           \* the Python call stack of the generator, top first
    status,          \* "idle", "running", "done" or "error"
    err,             \* the exception that ended the call, None when there is none
    output,          \* what main wrote to the output file, None when nothing
    log,             \* the kinds of message printed so far by the current call
    root_arg,        \* the root_element_name argument of the current generate_xml call
    runs,            \* number of generate_xml calls made on this generator
    calls,           \* history: the (parent, declaration) pairs _generate_xml_element
                     \* was called with in the current generate_xml call
    previous         \* history: the root name and the tree of the generate_xml call
                     \* before the current one (tree <<>> unless that call returned)

vars == <<schema, complex_types, simple_types, namespace_map, elems, stack,
          status, err, output, log, root_arg, runs, calls, previous>>

(***************************************************************************)
(* Bounds of the model.                                                    *)
(***************************************************************************)
MaxMinOccurs == 3    \* largest minOccurs tried on the element under test
MaxMaxOccurs == 3    \* largest finite maxOccurs tried on the element under test
MaxRuns == 2         \* generate_xml calls per generator
MaxAttributes == 2   \* most xs:attribute children of one definition in the schemas
RecursionLimit == 8  \* generator calls that may be active at once (the interpreter's
                     \* recursion limit, scaled to the schemas of the model)

None == "<None>"     \* Python's None where a string is expected
NoAttr == <<>>       \* an absent type / ref / base attribute
NoNode == 0          \* find() returned None

Inf == 1000000       \* float('inf'): above every finite bound of the model

Draws == {0, 1}      \* every random value is one of two samples

(***************************************************************************)
(* Schema nodes.                                                           *)
(***************************************************************************)
XsNode(tag, kids) ==
    [tag |-> tag, name |-> None, type |-> NoAttr, ref |-> NoAttr, base |-> NoAttr,
     value |-> None, minOccurs |-> None, maxOccurs |-> None,
     targetNamespace |-> None, kids |-> kids]

XsSchema(tns, kids) == [XsNode("schema", kids) EXCEPT !.targetNamespace = tns]

XsElement(name, type, kids) ==
    [XsNode("element", kids) EXCEPT !.name = name, !.type = type]

XsOccurs(node, mn, mx) == [node EXCEPT !.minOccurs = mn, !.maxOccurs = mx]

XsAttribute(name, type, kids) ==
    [XsNode("attribute", kids) EXCEPT !.name = name, !.type = type]

XsNamed(tag, name, kids) == [XsNode(tag, kids) EXCEPT !.name = name]

XsDerived(tag, base, kids) == [XsNode(tag, kids) EXCEPT !.base = base]

XsRef(tag, ref) == [XsNode(tag, <<>>) EXCEPT !.ref = ref]

XsEnumeration(value) == [XsNode("enumeration", <<>>) EXCEPT !.value = value]

Xs(local) == <<"xs", local>>          \* "xs:local".split(":")
Bare(local) == <<local>>              \* "local".split(":")
Prefixed(p, local) == <<p, local>>    \* "p:local".split(":")

(***************************************************************************)
(* int() and str() on the decimal numerals the schemas use.                *)
(***************************************************************************)
NumStr == <<"0", "1", "2", "3", "4", "5", "6", "7", "8", "9">>

Numeral(n) == NumStr[n + 1]

ParseInt(s) == CHOOSE n \in 0..(Len(NumStr) - 1) : NumStr[n + 1] = s

(***************************************************************************)
(* The schemas generation is run on.  Each is a valid XSD document.        *)
(***************************************************************************)

\* <xs:schema targetNamespace="urn:sample">
\*   <xs:element name="Doc"><xs:complexType><xs:sequence>
\*       <xs:element name="Item" type="ItemType" minOccurs=mn maxOccurs=mx/>
\*       <xs:element name="Tail" type="xs:string"/>
\*   </xs:sequence></xs:complexType></xs:element>
\*   <xs:complexType name="ItemType"><xs:sequence>
\*       <xs:element name="Sub" type="xs:string"/>
\*   </xs:sequence></xs:complexType>
\* </xs:schema>
OccSchema(mn, mx) == <<
    XsSchema("urn:sample", <<2, 7>>),                                  \* 1
    XsElement("Doc", NoAttr, <<3>>),                                   \* 2
    XsNode("complexType", <<4>>),                                      \* 3
    XsNode("sequence", <<5, 6>>),                                      \* 4
    XsOccurs(XsElement("Item", Bare("ItemType"), <<>>), mn, mx),       \* 5
    XsElement("Tail", Xs("string"), <<>>),                             \* 6
    XsNamed("complexType", "ItemType", <<8>>),                         \* 7
    XsNode("sequence", <<9>>),                                         \* 8
    XsElement("Sub", Xs("string"), <<>>)                               \* 9
>>

MinStrs == {None} \cup {Numeral(n) : n \in 0..MaxMinOccurs}

MaxStrs == {None, "unbounded"} \cup {Numeral(n) : n \in 0..MaxMaxOccurs}

\* the bounds a valid schema can declare: minOccurs <= maxOccurs
OccPairs ==
    {p \in MinStrs \X MaxStrs :
        \/ p[2] = "unbounded"
        \/ (IF p[1] = None THEN 1 ELSE ParseInt(p[1])) <= (IF p[2] = None THEN 1 ELSE ParseInt(p[2]))}

\* <xs:schema>
\*   <xs:element name="Doc" type="DocType"/>
\*   <xs:complexType name="DocType"><xs:choice>
\*       <xs:element name="A" type="xs:string" minOccurs=mn maxOccurs=mx/>
\*       <xs:element name="B" type="xs:boolean"/>
\*       <xs:element name="C" type="xs:int" maxOccurs="unbounded"/>
\*     </xs:choice>
\*     <xs:attribute name="Flag" type="xs:boolean"/>
\*   </xs:complexType>
\* </xs:schema>
ChoiceSchema(mn, mx) == <<
    XsSchema(None, <<2, 3>>),                                          \* 1
    XsElement("Doc", Bare("DocType"), <<>>),                           \* 2
    XsNamed("complexType", "DocType", <<4, 8>>),                       \* 3
    XsNode("choice", <<5, 6, 7>>),                                     \* 4
    XsOccurs(XsElement("A", Xs("string"), <<>>), mn, mx),              \* 5
    XsElement("B", Xs("boolean"), <<>>),                               \* 6
    XsOccurs(XsElement("C", Xs("int"), <<>>), None, "unbounded"),      \* 7
    XsAttribute("Flag", Xs("boolean"), <<>>)                           \* 8
>>

ChoicePairs == {<<None, None>>, <<"0", None>>, <<None, "unbounded">>, <<"0", "2">>}

\* <xs:schema targetNamespace="urn:sample">
\*   <xs:element name="Doc" type="DocType"/>
\*   <xs:complexType name="DocType">
\*     <xs:sequence><xs:element name="Amt" type="AmtType"/></xs:sequence>
\*     <xs:attribute name="Cd" .../>            the attribute under test
\*     <xs:attribute name="Id" type="xs:int"/>
\*   </xs:complexType>
\*   <xs:complexType name="AmtType"><xs:simpleContent>
\*     <xs:extension base="xs:decimal">
\*       <xs:attribute name="Ccy" type="CdtDbtCode"/>
\*     </xs:extension></xs:simpleContent></xs:complexType>
\*   <xs:simpleType name="CdtDbtCode"><xs:restriction base="xs:string">
\*     <xs:enumeration value="CRDT"/><xs:enumeration value="DBIT"/>
\*   </xs:restriction></xs:simpleType>
\* </xs:schema>
\* Nodes 16.. are the inline simpleType definitions an attribute shape may use.
AttrSchema(a) == <<
    XsSchema("urn:sample", <<2, 3, 8, 11>>),                           \* 1
    XsElement("Doc", Bare("DocType"), <<>>),                           \* 2
    XsNamed("complexType", "DocType", <<4, 6, 7>>),                    \* 3
    XsNode("sequence", <<5>>),                                         \* 4
    XsElement("Amt", Bare("AmtType"), <<>>),                           \* 5
    XsAttribute("Cd", a.type, a.kids),                                 \* 6
    XsAttribute("Id", Xs("int"), <<>>),                                \* 7
    XsNamed("complexType", "AmtType", <<9>>),                          \* 8
    XsNode("simpleContent", <<10>>),                                   \* 9
    XsDerived("extension", Xs("decimal"), <<15>>),                     \* 10
    XsNamed("simpleType", "CdtDbtCode", <<12>>),                       \* 11
    XsDerived("restriction", Xs("string"), <<13, 14>>),                \* 12
    XsEnumeration("CRDT"),                                             \* 13
    XsEnumeration("DBIT"),                                             \* 14
    XsAttribute("Ccy", Bare("CdtDbtCode"), <<>>),                      \* 15
    XsNode("simpleType", <<17>>),                                      \* 16 inline enumeration
    XsDerived("restriction", Xs("string"), <<13, 14>>),                \* 17
    XsNode("simpleType", <<19>>),                                      \* 18 inline list
    XsNode("list", <<>>),                                              \* 19
    XsNode("simpleType", <<21>>),                                      \* 20 restriction without base
    XsNode("restriction", <<22, 13, 14>>),                             \* 21
    XsNode("simpleType", <<12>>),                                      \* 22
    XsNode("simpleType", <<24>>),                                      \* 23 restriction of a named type
    XsDerived("restriction", Bare("CdtDbtCode"), <<13>>)               \* 24
>>

AttrShape(type, kids) == [type |-> type, kids |-> kids]

AttrShapes == {
    AttrShape(Xs("boolean"), <<>>),                \* built-in type
    AttrShape(Bare("CdtDbtCode"), <<>>),           \* global enumeration type
    AttrShape(Prefixed("tns", "CdtDbtCode"), <<>>),
    AttrShape(Prefixed("ext", "Foreign"), <<>>),   \* type of an imported namespace
    AttrShape(NoAttr, <<16>>),                     \* inline enumeration
    AttrShape(NoAttr, <<18>>),                     \* inline simpleType, xs:list
    AttrShape(NoAttr, <<20>>),                     \* inline restriction without base
    AttrShape(NoAttr, <<23>>),                     \* inline restriction of a named type
    AttrShape(NoAttr, <<>>) }                      \* no type information

\* <xs:schema targetNamespace="urn:sample">
\*   <xs:element name="Doc"><xs:complexType><xs:sequence>
\*       <xs:element .../>                         the declaration under test
\*       <xs:element name="After" type="xs:string"/>
\*   </xs:sequence></xs:complexType></xs:element>
\*   <xs:complexType name="PartyType">
\*     <xs:sequence><xs:element name="Nm" type="xs:string"/></xs:sequence>
\*     <xs:attribute name="Id" type="xs:int"/></xs:complexType>
\*   <xs:simpleType name="CdtDbtCode"> ... CRDT, DBIT ... </xs:simpleType>
\*   <xs:complexType name="ExtType"><xs:complexContent>
\*     <xs:extension base="PartyType">
\*       <xs:sequence><xs:element name="Extra" type="xs:boolean"/></xs:sequence>
\*       <xs:attribute name="Kind" type="xs:string"/>
\*     </xs:extension></xs:complexContent></xs:complexType>
\*   <xs:complexType name="RstType"><xs:complexContent>
\*     <xs:restriction base="PartyType">
\*       <xs:sequence><xs:element name="Nm" type="xs:string"/></xs:sequence>
\*     </xs:restriction></xs:complexContent></xs:complexType>
\*   <xs:complexType name="AmtType"><xs:simpleContent>
\*     <xs:extension base="xs:decimal"><xs:attribute name="Ccy" type="xs:string"/>
\*     </xs:extension></xs:simpleContent></xs:complexType>
\*   <xs:element name="Other" type="xs:string"/>
\*   <xs:complexType name="PfxExtType"><xs:complexContent>
\*     <xs:extension base="tns:PartyType">
\*       <xs:sequence><xs:element name="Extra" type="xs:boolean"/></xs:sequence>
\*     </xs:extension></xs:complexContent></xs:complexType>
\*   <xs:complexType name="ChcExtType"><xs:complexContent>
\*     <xs:extension base="PartyType">
\*       <xs:choice><xs:element name="Alt" type="xs:string"/></xs:choice>
\*     </xs:extension></xs:complexContent></xs:complexType>
\*   <xs:complexType name="AllRstType"><xs:complexContent>
\*     <xs:restriction base="PartyType">
\*       <xs:all><xs:element name="Nm" type="xs:string"/></xs:all>
\*     </xs:restriction></xs:complexContent></xs:complexType>
\* </xs:schema>
\* Nodes 30..42 and 55..58 are the inline type definitions an element shape
\* may use; 57 is <xs:complexType><xs:sequence> Nm </xs:sequence>
\* <xs:attribute name="Code" type="xs:string"/></xs:complexType>.
ElemSchema(e) == <<
    XsSchema("urn:sample", <<2, 7, 10, 13, 17, 21, 25, 43, 46, 51>>),  \* 1
    XsElement("Doc", NoAttr, <<3>>),                                   \* 2
    XsNode("complexType", <<4>>),                                      \* 3
    XsNode("sequence", <<5, 6>>),                                      \* 4
    [XsElement(e.name, e.type, e.kids) EXCEPT !.ref = e.ref],          \* 5
    XsElement("After", Xs("string"), <<>>),                            \* 6
    XsNamed("complexType", "PartyType", <<8, 9>>),                     \* 7
    XsNode("sequence", <<26>>),                                        \* 8
    XsAttribute("Id", Xs("int"), <<>>),                                \* 9
    XsNamed("simpleType", "CdtDbtCode", <<11>>),                       \* 10
    XsDerived("restriction", Xs("string"), <<12, 27>>),                \* 11
    XsEnumeration("CRDT"),                                             \* 12
    XsNamed("complexType", "ExtType", <<14>>),                         \* 13
    XsNode("complexContent", <<15>>),                                  \* 14
    XsDerived("extension", Bare("PartyType"), <<16, 28>>),             \* 15
    XsNode("sequence", <<29>>),                                        \* 16
    XsNamed("complexType", "RstType", <<18>>),                         \* 17
    XsNode("complexContent", <<19>>),                                  \* 18
    XsDerived("restriction", Bare("PartyType"), <<20>>),               \* 19
    XsNode("sequence", <<26>>),                                        \* 20
    XsNamed("complexType", "AmtType", <<22>>),                         \* 21
    XsNode("simpleContent", <<23>>),                                   \* 22
    XsDerived("extension", Xs("decimal"), <<24>>),                     \* 23
    XsAttribute("Ccy", Xs("string"), <<>>),                            \* 24
    XsElement("Other", Xs("string"), <<>>),                            \* 25
    XsElement("Nm", Xs("string"), <<>>),                               \* 26
    XsEnumeration("DBIT"),                                             \* 27
    XsAttribute("Kind", Xs("string"), <<>>),                           \* 28
    XsElement("Extra", Xs("boolean"), <<>>),                           \* 29
    XsNode("complexType", <<31>>),                                     \* 30 inline, sequence
    XsNode("sequence", <<26>>),                                        \* 31
    XsNode("complexType", <<22>>),                                     \* 32 inline, simpleContent extension
    XsNode("complexType", <<34>>),                                     \* 33 inline, simpleContent restriction
    XsNode("simpleContent", <<35>>),                                   \* 34
    XsDerived("restriction", Bare("AmtType"), <<>>),                   \* 35
    XsNode("complexType", <<>>),                                       \* 36 inline, empty
    XsNode("simpleType", <<11>>),                                      \* 37 inline enumeration
    XsNode("simpleType", <<39>>),                                      \* 38 restriction without base
    XsNode("restriction", <<40>>),                                     \* 39
    XsNode("simpleType", <<11>>),                                      \* 40
    XsNode("simpleType", <<42>>),                                      \* 41 inline list
    XsNode("list", <<>>),                                              \* 42
    XsNamed("complexType", "PfxExtType", <<44>>),                      \* 43
    XsNode("complexContent", <<45>>),                                  \* 44
    XsDerived("extension", Prefixed("tns", "PartyType"), <<16>>),      \* 45
    XsNamed("complexType", "ChcExtType", <<47>>),                      \* 46
    XsNode("complexContent", <<48>>),                                  \* 47
    XsDerived("extension", Bare("PartyType"), <<49>>),                 \* 48
    XsNode("choice", <<50>>),                                          \* 49
    XsElement("Alt", Xs("string"), <<>>),                              \* 50
    XsNamed("complexType", "AllRstType", <<52>>),                      \* 51
    XsNode("complexContent", <<53>>),                                  \* 52
    XsDerived("restriction", Bare("PartyType"), <<54>>),               \* 53
    XsNode("all", <<26>>),                                             \* 54
    XsNode("simpleType", <<56>>),                                      \* 55 inline, custom base
    XsDerived("restriction", Prefixed("ext", "Code"), <<12, 27>>),     \* 56
    XsNode("complexType", <<31, 58>>),                                 \* 57 inline, attribute
    XsAttribute("Code", Xs("string"), <<>>)                            \* 58
>>

ElemShape(name, type, ref, kids) ==
    [name |-> name, type |-> type, ref |-> ref, kids |-> kids]

ElemShapes == {
    ElemShape("Val", Xs("date"), NoAttr, <<>>),                 \* built-in type
    ElemShape("Val", Bare("PartyType"), NoAttr, <<>>),          \* global complex type
    ElemShape("Val", Prefixed("tns", "ExtType"), NoAttr, <<>>), \* complexContent extension
    ElemShape("Val", Bare("RstType"), NoAttr, <<>>),            \* complexContent restriction
    ElemShape("Val", Bare("PfxExtType"), NoAttr, <<>>),         \* extension, prefixed base
    ElemShape("Val", Bare("ChcExtType"), NoAttr, <<>>),         \* extension with a choice
    ElemShape("Val", Bare("AllRstType"), NoAttr, <<>>),         \* restriction with an all
    ElemShape("Val", Bare("AmtType"), NoAttr, <<>>),            \* simpleContent
    ElemShape("Val", Bare("CdtDbtCode"), NoAttr, <<>>),         \* global simple type
    ElemShape("Val", Prefixed("ext", "Foreign"), NoAttr, <<>>), \* imported type
    ElemShape(None, NoAttr, Bare("Other"), <<>>),               \* ref to a global element
    ElemShape("Val", NoAttr, NoAttr, <<30>>),
    ElemShape("Val", NoAttr, NoAttr, <<32>>),
    ElemShape("Val", NoAttr, NoAttr, <<33>>),
    ElemShape("Val", NoAttr, NoAttr, <<36>>),
    ElemShape("Val", NoAttr, NoAttr, <<37>>),
    ElemShape("Val", NoAttr, NoAttr, <<38>>),
    ElemShape("Val", NoAttr, NoAttr, <<41>>),
    ElemShape("Val", NoAttr, NoAttr, <<55>>),
    ElemShape("Val", NoAttr, NoAttr, <<57>>),
    ElemShape("Val", NoAttr, NoAttr, <<>>) }                    \* no type information

\* <xs:schema>
\*   <xs:simpleType name="CdtDbtCode"> ... </xs:simpleType>
\*   <xs:element name="First"><xs:complexType><xs:sequence>
\*       <xs:element name="Nested" type="xs:string"/>
\*   </xs:sequence></xs:complexType></xs:element>
\*   <xs:element name="Second" type="xs:int"/>
\* </xs:schema>
MultiRootSchema == <<
    XsSchema(None, <<7, 2, 6>>),                                       \* 1
    XsElement("First", NoAttr, <<3>>),                                 \* 2
    XsNode("complexType", <<4>>),                                      \* 3
    XsNode("sequence", <<5>>),                                         \* 4
    XsElement("Nested", Xs("string"), <<>>),                           \* 5
    XsElement("Second", Xs("int"), <<>>),                              \* 6
    XsNamed("simpleType", "CdtDbtCode", <<8>>),                        \* 7
    XsDerived("restriction", Xs("string"), <<9>>),                     \* 8
    XsEnumeration("CRDT")                                              \* 9
>>

\* <xs:schema targetNamespace="urn:sample">
\*   <xs:complexType name="OnlyType"><xs:sequence>
\*       <xs:element name="Nested" type="xs:string"/>
\*   </xs:sequence></xs:complexType>
\* </xs:schema>
NoGlobalElementSchema == <<
    XsSchema("urn:sample", <<2>>),                                     \* 1
    XsNamed("complexType", "OnlyType", <<3>>),                         \* 2
    XsNode("sequence", <<4>>),                                         \* 3
    XsElement("Nested", Xs("string"), <<>>)                            \* 4
>>

\* <xs:schema targetNamespace="urn:sample">
\*   <xs:element name="Doc" type="NodeType"/>
\*   <xs:complexType name="NodeType"><xs:sequence>
\*       <xs:element name="Node" type="NodeType" minOccurs=mn maxOccurs="unbounded"/>
\*   </xs:sequence></xs:complexType>
\* </xs:schema>
RecursiveSchema(mn) == <<
    XsSchema("urn:sample", <<2, 3>>),                                  \* 1
    XsElement("Doc", Bare("NodeType"), <<>>),                          \* 2
    XsNamed("complexType", "NodeType", <<4>>),                         \* 3
    XsNode("sequence", <<5>>),                                         \* 4
    XsOccurs(XsElement("Node", Bare("NodeType"), <<>>), mn, "unbounded") \* 5
>>

\* <xs:schema targetNamespace="urn:sample">
\*   <xs:element name="Doc" type="DocType"/>
\*   <xs:complexType name="DocType"><xs:sequence>
\*       <xs:element name="Val" type="xs:string"/>
\*       <xs:element name="Num" type="xs:int"/>
\*     </xs:sequence>
\*     <xs:attribute name="Ver" type="xs:string"/>
\*   </xs:complexType>
\*   <xs:complexType name="string">
\*     <xs:sequence><xs:element name="Inner" type="xs:boolean"/></xs:sequence>
\*     <xs:attribute name="Lang" type="xs:language"/>
\*   </xs:complexType>
\*   <xs:simpleType name="int"><xs:restriction base="xs:token"/></xs:simpleType>
\* </xs:schema>
\* The schema's own types "string" and "int" live in urn:sample, the built-in
\* ones in the XML Schema namespace.
ShadowSchema == <<
    XsSchema("urn:sample", <<2, 3, 8, 12>>),                           \* 1
    XsElement("Doc", Bare("DocType"), <<>>),                           \* 2
    XsNamed("complexType", "DocType", <<4, 7>>),                       \* 3
    XsNode("sequence", <<5, 6>>),                                      \* 4
    XsElement("Val", Xs("string"), <<>>),                              \* 5
    XsElement("Num", Xs("int"), <<>>),                                 \* 6
    XsAttribute("Ver", Xs("string"), <<>>),                            \* 7
    XsNamed("complexType", "string", <<9, 11>>),                       \* 8
    XsNode("sequence", <<10>>),                                        \* 9
    XsElement("Inner", Xs("boolean"), <<>>),                           \* 10
    XsAttribute("Lang", Xs("language"), <<>>),                         \* 11
    XsNamed("simpleType", "int", <<13>>),                              \* 12
    XsDerived("restriction", Xs("token"), <<>>)                        \* 13
>>

\* <xs:schema>
\*   <xs:element name="Doc"><xs:complexType><xs:all>
\*       <xs:element name="X" type="xs:string" minOccurs="0"/>
\*       <xs:element name="Y" type="xs:string"/>
\*       <xs:element name="Z" type="xs:token" minOccurs="0"/>
\*   </xs:all></xs:complexType></xs:element>
\* </xs:schema>
AllSchema == <<
    XsSchema(None, <<2>>),                                             \* 1
    XsElement("Doc", NoAttr, <<3>>),                                   \* 2
    XsNode("complexType", <<4>>),                                      \* 3
    XsNode("all", <<5, 6, 7>>),                                        \* 4
    XsOccurs(XsElement("X", Xs("string"), <<>>), "0", None),           \* 5
    XsElement("Y", Xs("string"), <<>>),                                \* 6
    XsOccurs(XsElement("Z", Xs("token"), <<>>), "0", None)             \* 7
>>


\* <xs:schema targetNamespace="urn:sample">
\*   <xs:element name="Doc" type="DocType"/>
\*   <xs:complexType name="DocType">
\*     <xs:sequence>
\*       <xs:element name="A" type="xs:string"/>
\*       <xs:group ref="tns:G"/>
\*       <xs:element name="B" type="xs:boolean"/>
\*     </xs:sequence>
\*     <xs:attribute name="Id" type="xs:int"/>
\*     <xs:attributeGroup ref="tns:AG"/>
\*   </xs:complexType>
\*   <xs:group name="G"><xs:sequence>
\*       <xs:element name="InGroup" type="xs:string"/>
\*   </xs:sequence></xs:group>
\*   <xs:attributeGroup name="AG">
\*     <xs:attribute name="GrpAttr" type="xs:string"/>
\*   </xs:attributeGroup>
\* </xs:schema>
GroupSchema == <<
    XsSchema("urn:sample", <<2, 3, 10, 13>>),                          \* 1
    XsElement("Doc", Bare("DocType"), <<>>),                           \* 2
    XsNamed("complexType", "DocType", <<4, 8, 9>>),                    \* 3
    XsNode("sequence", <<5, 6, 7>>),                                   \* 4
    XsElement("A", Xs("string"), <<>>),                                \* 5
    XsRef("group", Prefixed("tns", "G")),                              \* 6
    XsElement("B", Xs("boolean"), <<>>),                               \* 7
    XsAttribute("Id", Xs("int"), <<>>),                                \* 8
    XsRef("attributeGroup", Prefixed("tns", "AG")),                    \* 9
    XsNamed("group", "G", <<11>>),                                     \* 10
    XsNode("sequence", <<12>>),                                        \* 11
    XsElement("InGroup", Xs("string"), <<>>),                          \* 12
    XsNamed("attributeGroup", "AG", <<14>>),                           \* 13
    XsAttribute("GrpAttr", Xs("string"), <<>>)                         \* 14
>>


\* content models nested in content models: a sequence, a choice and an all
\* inside the root's sequence, a choice of nested models only, and a choice
\* whose first child is a nested sequence
NestedSchema == <<
    XsSchema("urn:sample", <<2, 3, 14, 19>>),                          \* 1
    XsElement("Doc", Bare("DocType"), <<>>),                           \* 2
    XsNamed("complexType", "DocType", <<4>>),                          \* 3
    XsNode("sequence", <<5, 6, 8, 10, 12, 13, 26>>),                   \* 4
    XsElement("A", Xs("string"), <<>>),                                \* 5
    XsNode("sequence", <<7>>),                                         \* 6
    XsElement("N1", Xs("string"), <<>>),                               \* 7
    XsNode("choice", <<9>>),                                           \* 8
    XsElement("N2", Xs("string"), <<>>),                               \* 9
    XsNode("all", <<11>>),                                             \* 10
    XsElement("N3", Xs("string"), <<>>),                               \* 11
    XsElement("Pick", Bare("PickType"), <<>>),                         \* 12
    XsElement("Mix", Bare("MixType"), <<>>),                           \* 13
    XsNamed("complexType", "PickType", <<15>>),                        \* 14
    XsNode("choice", <<16, 18>>),                                      \* 15
    XsNode("sequence", <<17>>),                                        \* 16
    XsElement("N4", Xs("string"), <<>>),                               \* 17
    XsNode("choice", <<25>>),                                          \* 18
    XsNamed("complexType", "MixType", <<20>>),                         \* 19
    XsNode("choice", <<21, 23, 24>>),                                  \* 20
    XsNode("sequence", <<22>>),                                        \* 21
    XsElement("N6", Xs("string"), <<>>),                               \* 22
    XsElement("C1", Xs("string"), <<>>),                               \* 23
    XsElement("C2", Xs("string"), <<>>),                               \* 24
    XsElement("N5", Xs("string"), <<>>),                               \* 25
    XsElement("B", Xs("boolean"), <<>>)                                \* 26
>>

Schemas ==
    {OccSchema(p[1], p[2]) : p \in OccPairs}
    \cup {NestedSchema}
    \cup {GroupSchema}
    \cup {AllSchema}
    \cup {ShadowSchema}
    \cup {RecursiveSchema(mn) : mn \in {"0", None}}
    \cup {ChoiceSchema(p[1], p[2]) : p \in ChoicePairs}
    \cup {AttrSchema(a) : a \in AttrShapes}
    \cup {ElemSchema(e) : e \in ElemShapes}
    \cup {MultiRootSchema, NoGlobalElementSchema}

\* the root_element_name arguments generate_xml is called with
RootNames == {None, "Doc", "First", "Second", "Nested", "Missing"}

(***************************************************************************)
(* generate_sample_value.  A random or clock-dependent entry of type_map   *)
(* is one of two samples, picked by the draw r.                            *)
(***************************************************************************)
Pick(r, a, b) == IF r = 0 THEN a ELSE b

type_map(r) ==
    [string |-> "sample_string",
     normalizedstring |-> "sample_normalized_string",
     token |-> "sample_token",
     boolean |-> Pick(r, "true", "false"),
     decimal |-> Pick(r, "1.00", "999.99"),
     integer |-> Pick(r, "1", "1000"),
     long |-> Pick(r, "1000", "100000"),
     int |-> Pick(r, "1", "1000"),
     short |-> Pick(r, "1", "100"),
     byte |-> Pick(r, "0", "127"),
     nonnegativeinteger |-> Pick(r, "0", "1000"),
     positiveinteger |-> Pick(r, "1", "1000"),
     nonpositiveinteger |-> Pick(r, "-1000", "0"),
     negativeinteger |-> Pick(r, "-1000", "-1"),
     double |-> Pick(r, "1.0000", "999.9999"),
     float |-> Pick(r, "1.0000", "999.9999"),
     duration |-> "P1Y2M3DT4H5M6S",
     datetime |-> Pick(r, "2024-01-01T00:00:00+00:00", "2024-12-31T23:59:59+00:00"),
     time |-> Pick(r, "00:00:00", "23:59:59"),
     date |-> Pick(r, "2024-01-01", "2024-12-31"),
     gyearmonth |-> Pick(r, "2024-01", "2024-12"),
     gyear |-> Pick(r, "2024", "2025"),
     gmonthday |-> Pick(r, "--01-01", "--12-31"),
     gday |-> Pick(r, "---01", "---31"),
     gmonth |-> Pick(r, "--01--", "--12--"),
     hexbinary |-> "0FB7",
     base64binary |-> "AQIDBA==",
     anyuri |-> "http://example.com/resource",
     qname |-> "tns:sampleQName",
     notation |-> "sample_notation",
     id |-> Pick(r, "id1000", "id9999"),
     idref |-> Pick(r, "idref1000", "idref9999"),
     idrefs |-> "idrefs_1 idrefs_2",
     nmtoken |-> "sample_NMTOKEN",
     nmtokens |-> "sample_NMTOKEN_1 sample_NMTOKEN_2",
     name |-> "sample_Name",
     ncname |-> "sampleNCName",
     language |-> "en-US",
     entity |-> "entity_name",
     entities |-> "entity_name_1 entity_name_2",
     notations |-> "notation_1 notation_2",
     anysimpletype |-> "any_simple_type_value"]

\* str.lower() on the type names that occur in the schemas
LowerCased ==
    [CdtDbtCode |-> "cdtdbtcode", Foreign |-> "foreign", PartyType |-> "partytype",
     ExtType |-> "exttype", RstType |-> "rsttype", AmtType |-> "amttype",
     ItemType |-> "itemtype", DocType |-> "doctype", OnlyType |-> "onlytype",
     NodeType |-> "nodetype", PfxExtType |-> "pfxexttype",
     ChcExtType |-> "chcexttype", AllRstType |-> "allrsttype"]

lower(s) == IF s \in DOMAIN LowerCased THEN LowerCased[s] ELSE s

generate_sample_value(xsd_type_name, r) ==
    IF lower(xsd_type_name) \in DOMAIN type_map(r)
    THEN type_map(r)[lower(xsd_type_name)]
    ELSE "UNKNOWN_TYPE_" \o xsd_type_name

(***************************************************************************)
(* lxml lookups on the schema document.                                    *)
(***************************************************************************)
\* a lookup that lists the matching children last to first
findall_reversed(n, tag) ==
    LET kids == schema[n].kids
    IN  SelectSeq([i \in DOMAIN kids |-> kids[Len(kids) + 1 - i]],
                  LAMBDA k : schema[k].tag = tag)

\* a search that goes through the whole subtree, in document order
RECURSIVE findall_deep(_, _)
findall_deep(n, tag) ==
    LET below[j \in 0..Len(schema[n].kids)] ==
            IF j = 0 THEN <<>>
            ELSE below[j - 1]
                 \o (IF schema[schema[n].kids[j]].tag = tag
                     THEN <<schema[n].kids[j]>> ELSE <<>>)
                 \o (IF schema[schema[n].kids[j]].tag \in {"sequence", "choice", "all"}
                     THEN findall_deep(schema[n].kids[j], tag) ELSE <<>>)
    IN  below[Len(schema[n].kids)]

findall(n, tag) == SelectSeq(schema[n].kids, LAMBDA k : schema[k].tag = tag)

find(n, tag) == IF findall(n, tag) = <<>> THEN NoNode ELSE findall(n, tag)[1]

\* bool(element): an lxml element without children is false, and so is None
Truthy(n) == n # NoNode /\ schema[n].kids # <<>>

\* Python's  a or b
Or(a, b) == IF Truthy(a) THEN a ELSE b

startswith_xs(s) == Len(s) >= 2 /\ s[1] = "xs"     \* s.startswith("xs:")

has_colon(s) == Len(s) >= 2                        \* ":" in s

(***************************************************************************)
(* The type registry.                                                      *)
(***************************************************************************)
\* a scan that indexes every named child of the schema root, whatever its tag
_get_global_definitions_any_tag(doc, tag_name) ==
    LET defs == SelectSeq(doc[1].kids, LAMBDA k : doc[k].name # None)
        names == {doc[defs[i]].name : i \in DOMAIN defs}
    IN  [nm \in names |->
            defs[CHOOSE i \in DOMAIN defs :
                    /\ doc[defs[i]].name = nm
                    /\ \A j \in DOMAIN defs : doc[defs[j]].name = nm => j <= i]]

_get_global_definitions(doc, tag_name) ==
    LET defs == SelectSeq(doc[1].kids,
                          LAMBDA k : doc[k].tag = tag_name /\ doc[k].name # None)
        names == {doc[defs[i]].name : i \in DOMAIN defs}
    IN  [nm \in names |->
            defs[CHOOSE i \in DOMAIN defs :
                    /\ doc[defs[i]].name = nm
                    /\ \A j \in DOMAIN defs : doc[defs[j]].name = nm => j <= i]]

\* a registry that hands out one of its complex types for a name it does not hold
_get_type_definition_any(type_name) ==
    IF type_name = NoAttr THEN NoNode
    ELSE IF Len(type_name) = 1 /\ type_name[1] \in DOMAIN complex_types
         THEN complex_types[type_name[1]]
    ELSE IF DOMAIN complex_types # {}
         THEN complex_types[CHOOSE nm \in DOMAIN complex_types : TRUE]
    ELSE NoNode

\* a registry that holds the simple types only
_get_type_definition_simple_only(type_name) ==
    IF type_name = NoAttr THEN NoNode
    ELSE IF startswith_xs(type_name) THEN NoNode
    ELSE IF Len(type_name) = 1 /\ type_name[1] \in DOMAIN simple_types
         THEN simple_types[type_name[1]]
    ELSE NoNode

_get_type_definition(type_name) ==
    IF type_name = NoAttr THEN NoNode
    ELSE IF startswith_xs(type_name) THEN NoNode
    ELSE IF Len(type_name) = 1 /\ type_name[1] \in DOMAIN complex_types
         THEN complex_types[type_name[1]]
    ELSE IF Len(type_name) = 1 /\ type_name[1] \in DOMAIN simple_types
         THEN simple_types[type_name[1]]
    ELSE NoNode

(***************************************************************************)
(* Type resolution.  A result is [raised, value]: raised names the         *)
(* exception the code raises (None when it returns), value is the name     *)
(* returned (None for Python's None).                                      *)
(***************************************************************************)
Returned(v) == [raised |-> None, value |-> v]

Raised(e) == [raised |-> e, value |-> None]

\* the base attribute of an inline extension / restriction, lines 158-164 and 171-177
base_type_name(base_type) ==
    IF base_type # NoAttr /\ startswith_xs(base_type) THEN Returned(base_type[2])
    ELSE IF base_type = NoAttr THEN Raised("TypeError")     \* ":" in None
    ELSE IF has_colon(base_type) THEN Returned(base_type[Len(base_type)])
    ELSE IF base_type[1] # "" THEN Returned(base_type[1])
    ELSE Returned("string")

_get_xsd_type_name(n) ==
    LET type_attr == schema[n].type
        ref_attr == schema[n].ref
        complex_type_def == find(n, "complexType")
        simple_content_def == find(complex_type_def, "simpleContent")
        extension_def == find(simple_content_def, "extension")
        simple_type_def == find(n, "simpleType")
        restriction == find(simple_type_def, "restriction")
    IN  IF type_attr # NoAttr /\ type_attr # <<"">>
        THEN IF startswith_xs(type_attr) THEN Returned(type_attr[2])
             ELSE IF has_colon(type_attr) THEN Returned(type_attr[Len(type_attr)])
             ELSE Returned(type_attr[1])
        ELSE IF ref_attr # NoAttr /\ ref_attr # <<"">> THEN Returned("string")
        ELSE IF complex_type_def # NoNode
        THEN IF simple_content_def # NoNode /\ extension_def # NoNode
             THEN base_type_name(schema[extension_def].base)
             ELSE Returned(None)
        ELSE IF simple_type_def # NoNode
        THEN IF restriction # NoNode
             THEN base_type_name(schema[restriction].base)
             ELSE Returned(None)
        ELSE Returned("string")

\* a name returned by _get_xsd_type_name, as the code passes it on
AsName(v) == IF v = None THEN NoAttr ELSE <<v>>

_get_occurrence(n) ==
    LET min_occurs == IF schema[n].minOccurs = None THEN 1
                      ELSE ParseInt(schema[n].minOccurs)
        max_occurs == IF schema[n].maxOccurs = None THEN 1
                      ELSE IF schema[n].maxOccurs = "unbounded" THEN Inf
                      ELSE ParseInt(schema[n].maxOccurs)
    IN  <<min_occurs, max_occurs>>

(***************************************************************************)
(* Generated elements.                                                     *)
(***************************************************************************)
NoAttributes == [k \in {} |-> None]

\* an element created with text in it
Element_with_text(tag, parent, decl) ==
    [tag |-> tag, parent |-> parent, attrib |-> NoAttributes, text |-> "\n",
     nsmap |-> namespace_map, decl |-> decl]

\* an element created without the nsmap argument
Element_without_nsmap(tag, parent, decl) ==
    [tag |-> tag, parent |-> parent, attrib |-> NoAttributes, text |-> None,
     nsmap |-> None, decl |-> decl]

\* etree.Element / etree.SubElement: decl records the declaration it was made for
Element(tag, parent, decl) ==
    [tag |-> tag, parent |-> parent, attrib |-> NoAttributes, text |-> None,
     nsmap |-> namespace_map, decl |-> decl]

\* xml_element.set(name, value)
set(attrib, name, value) ==
    [k \in DOMAIN attrib \cup {name} |-> IF k = name THEN value ELSE attrib[k]]

(***************************************************************************)
(* _process_attributes on the attribute map of the target element, with    *)
(* rs[i] the random draw of the i-th xs:attribute.  The result is the map  *)
(* reached, the exception raised on the way (None when none) and the       *)
(* messages printed.                                                       *)
(***************************************************************************)
RECURSIVE process_attribute_list(_, _, _, _)
process_attribute_list(attrib, attrs, i, rs) ==
    IF i > Len(attrs) THEN [attrib |-> attrib, raised |-> None, log |-> {}]
    ELSE LET attr == schema[attrs[i]]
             attr_type == _get_xsd_type_name(attrs[i])
             resolved_name == attr.ref[Len(attr.ref)]
         IN  IF attr.name # None /\ attr.name # ""
             THEN IF attr_type.raised # None
                  THEN [attrib |-> attrib, raised |-> attr_type.raised, log |-> {}]
                  ELSE IF attr_type.value = None      \* None.lower()
                  THEN [attrib |-> attrib, raised |-> "AttributeError", log |-> {}]
                  ELSE process_attribute_list(
                           set(attrib, attr.name,
                               generate_sample_value(attr_type.value, rs[i])),
                           attrs, i + 1, rs)
             ELSE IF attr.ref # NoAttr
             THEN process_attribute_list(
                      set(attrib, resolved_name, "ref_value_for_" \o resolved_name),
                      attrs, i + 1, rs)
             ELSE LET rest == process_attribute_list(attrib, attrs, i + 1, rs)
                  IN  [rest EXCEPT !.log = @ \cup {"Warning: attribute without name or ref"}]

\* attribute processing that fails on an xs:attributeGroup reference
_process_attributes_strict(attrib, xsd_definition, rs) ==
    LET done == process_attribute_list(attrib, findall(xsd_definition, "attribute"), 1, rs)
    IN  IF done.raised = None /\ findall(xsd_definition, "attributeGroup") # <<>>
        THEN [done EXCEPT !.raised = "ValueError: xs:attributeGroup not resolved"]
        ELSE done

_process_attributes(attrib, xsd_definition, rs) ==
    LET done == process_attribute_list(attrib, findall(xsd_definition, "attribute"), 1, rs)
        groups == {g \in DOMAIN findall(xsd_definition, "attributeGroup") :
                      schema[findall(xsd_definition, "attributeGroup")[g]].ref # NoAttr}
    IN  IF done.raised = None /\ groups # {}
        THEN [done EXCEPT !.log = @ \cup {"Warning: xs:attributeGroup not resolved"}]
        ELSE done

(***************************************************************************)
(* Text of simple content.  Each operator is the set of texts the code can *)
(* assign, over the random draws.                                          *)
(***************************************************************************)
enum_values(restriction) ==
    {schema[findall(restriction, "enumeration")[i]].value :
        i \in DOMAIN findall(restriction, "enumeration")}

sample_values(xsd_type_name) == {generate_sample_value(xsd_type_name, r) : r \in Draws}

\* lines 392-406 and 434-447: text of a global or inline simpleType
simple_type_text(simple_type, no_enum, no_restriction) ==
    LET restriction == find(simple_type, "restriction")
        base_type == schema[restriction].base
    IN  IF restriction # NoNode
        THEN IF base_type # NoAttr /\ startswith_xs(base_type)
             THEN sample_values(base_type[2])
             ELSE IF enum_values(restriction) # {} THEN enum_values(restriction)
             ELSE {no_enum}
        ELSE {no_restriction}

\* lines 263-273: text of a simpleContent extension
extension_text(extension) ==
    LET base_attr == schema[extension].base
    IN  IF base_attr # NoAttr
        THEN IF startswith_xs(base_attr) THEN sample_values(base_attr[2])
             ELSE sample_values(base_attr[Len(base_attr)])
        ELSE sample_values("string")

\* lines 276-295: text of a simpleContent restriction
restriction_text(restriction) ==
    LET base_attr == schema[restriction].base
    IN  IF base_attr # NoAttr
        THEN IF startswith_xs(base_attr) THEN sample_values(base_attr[2])
             ELSE IF enum_values(restriction) # {} THEN enum_values(restriction)
             ELSE sample_values(base_attr[Len(base_attr)])
        ELSE IF enum_values(restriction) # {} THEN enum_values(restriction)
        ELSE sample_values("string")

(***************************************************************************)
(* The occurrence sampler, lines 352-364.                                  *)
(***************************************************************************)
Min2(a, b) == IF a <= b THEN a ELSE b

\* the upper end of the range drawn from for maxOccurs="unbounded"
unbounded_upper(min_occurs) == Min2(min_occurs + 1, 2)

\* a draw that starts at 0 whatever the lower end is
randint_from_zero(a, b) == 0..b

\* random.randint(a, b) raises ValueError on an empty range
randint(a, b) == a..b

randint_raises(a, b) == a > b

\* a sampler that keeps a draw of 0
at_least_one_keep(n, min_occurs) == n

\* line 357 / 361: a draw of 0 becomes 1
at_least_one(n, min_occurs) == IF n = 0 /\ min_occurs = 0 THEN 1 ELSE n

\* a sampler that never omits a declaration
omitted_never(min_occurs, max_occurs) == FALSE

\* line 349: the declaration is not generated at all
omitted(min_occurs, max_occurs) == min_occurs = 0 /\ max_occurs = 0

sampler_raises(min_occurs, max_occurs) ==
    IF max_occurs = Inf THEN randint_raises(min_occurs, unbounded_upper(min_occurs))
    ELSE IF max_occurs > 1 THEN randint_raises(min_occurs, max_occurs)
    ELSE FALSE

\* a sampler that flips the coin of line 363 without looking at min_occurs
num_occurrences_coin(min_occurs, max_occurs) ==
    IF max_occurs = Inf
    THEN {at_least_one(n, min_occurs) :
            n \in randint(min_occurs, unbounded_upper(min_occurs))}
    ELSE IF max_occurs > 1
    THEN {at_least_one(n, min_occurs) : n \in randint(min_occurs, max_occurs)}
    ELSE {0, 1}

\* the values num_occurrences can have at line 366
num_occurrences(min_occurs, max_occurs) ==
    IF max_occurs = Inf
    THEN {at_least_one(n, min_occurs) :
            n \in randint(min_occurs, unbounded_upper(min_occurs))}
    ELSE IF max_occurs > 1
    THEN {at_least_one(n, min_occurs) : n \in randint(min_occurs, max_occurs)}
    ELSE IF min_occurs = 0 THEN {0, 1}
    ELSE {1}

(***************************************************************************)
(* The call stack.  A "gen" frame is a call of _generate_xml_element       *)
(* (parent element, declaration; idx = instances still to create), a "pcm" *)
(* frame a call of _process_content_model (target element, content-model   *)
(* node; idx = next xs:element of a sequence).                             *)
(***************************************************************************)
GenFrame(parent, node) ==
    [kind |-> "gen", parent |-> parent, node |-> node, idx |-> 0, phase |-> "begin"]

\* the content model applied to the document's root element
PcmFrame_on_root(target, node) ==
    [kind |-> "pcm", parent |-> 1, node |-> node, idx |-> 1, phase |-> "base"]

\* the content model applied to the element created before the target
PcmFrame_on_previous(target, node) ==
    [kind |-> "pcm", parent |-> target - 1, node |-> node, idx |-> 1, phase |-> "base"]

PcmFrame(target, node) ==
    [kind |-> "pcm", parent |-> target, node |-> node, idx |-> 1, phase |-> "base"]

Top == Head(stack)

Running(kind) == status = "running" /\ stack # <<>> /\ Top.kind = kind

\* an exception leaves through every frame; main prints it and writes nothing
Raise(e) ==
    /\ status' = "error"
    /\ err' = e
    /\ stack' = <<>>

\* a call of a generator method with `rest` the calls already active: past the
\* recursion limit the interpreter raises RecursionError
Call(frames, rest) ==
    IF frames # <<>> /\ Len(rest) >= RecursionLimit
    THEN Raise("RecursionError")
    ELSE /\ stack' = frames \o rest
         /\ UNCHANGED <<status, err>>

\* a step that drops the complex types from the registry
Fixed_forgetting ==
    /\ complex_types' = [nm \in {} |-> NoNode]
    /\ UNCHANGED <<schema, simple_types, namespace_map, root_arg, runs, previous>>

Fixed == UNCHANGED <<schema, complex_types, simple_types, namespace_map,
                     root_arg, runs, previous>>

\* the content model of a type definition, lines 382-386 and 420-424
content_model_of(type_def) ==
    Or(Or(Or(Or(find(type_def, "sequence"), find(type_def, "all")),
             find(type_def, "choice")),
          find(type_def, "complexContent")),
       find(type_def, "simpleContent"))

\* the content model of an extension's base type, lines 231-234
base_content_model_of(type_def) ==
    Or(Or(Or(find(type_def, "sequence"), find(type_def, "all")),
          find(type_def, "choice")),
       find(type_def, "complexContent"))

Init ==
    /\ schema \in Schemas
    /\ complex_types = _get_global_definitions(schema, "complexType")
    /\ simple_types = _get_global_definitions(schema, "simpleType")
    /\ namespace_map = schema[1].targetNamespace
    /\ elems = <<>>
    /\ stack = <<>>
    /\ status = "idle"
    /\ err = None
    /\ output = <<>>
    /\ log = {}
    /\ root_arg = None
    /\ runs = 0
    /\ calls = {}
    /\ previous = [root |-> None, tree |-> <<>>]

(***************************************************************************)
(* generate_xml, lines 452-485: select the root declaration, create the    *)
(* root element and call _generate_xml_element on it.                      *)
(***************************************************************************)
\* a lookup that searches the whole schema, not only its direct children
find_element_anywhere(root_element_name) ==
    IF \E k \in DOMAIN schema : schema[k].tag = "element" /\ schema[k].name = root_element_name
    THEN CHOOSE k \in DOMAIN schema :
            schema[k].tag = "element" /\ schema[k].name = root_element_name
    ELSE NoNode

find_global_element(root_element_name) ==
    LET named == SelectSeq(findall(1, "element"),
                           LAMBDA k : schema[k].name = root_element_name)
    IN  IF named = <<>> THEN NoNode ELSE named[1]

\* a selection that falls back to the first global element for an unknown name
selected_root_fallback(root_element_name) ==
    IF root_element_name # None /\ root_element_name # ""
          /\ find_global_element(root_element_name) # NoNode
    THEN find_global_element(root_element_name)
    ELSE find(1, "element")

selected_root(root_element_name) ==
    IF root_element_name # None /\ root_element_name # ""
    THEN find_global_element(root_element_name)
    ELSE find(1, "element")

GenerateXml(root_element_name) ==
    /\ status \in {"idle", "done", "error"}
    /\ runs < MaxRuns
    /\ runs' = runs + 1
    /\ root_arg' = root_element_name
    /\ calls' = {}
    /\ previous' = [root |-> root_arg, tree |-> IF status = "done" THEN elems ELSE <<>>]
    /\ LET selected == selected_root(root_element_name)
       IN  IF selected = NoNode
           THEN /\ Raise(IF root_element_name # None /\ root_element_name # ""
                         THEN "ValueError: Root element not found in XSD"
                         ELSE "ValueError: No global element definition found in the XSD")
                /\ elems' = <<>>
                /\ log' = {}
           ELSE /\ elems' = <<Element(schema[selected].name, 0, NoNode)>>
                /\ stack' = <<GenFrame(1, selected)>>
                /\ status' = "running"
                /\ err' = None
                /\ log' = IF root_element_name # None /\ root_element_name # ""
                          THEN {} ELSE {"Info: using first global element"}
    /\ UNCHANGED <<schema, complex_types, simple_types, namespace_map, output>>

(***************************************************************************)
(* _generate_xml_element, lines 340-367: the name check, the occurrence    *)
(* bounds and the draw of num_occurrences.                                 *)
(***************************************************************************)
\* a name test that takes every declaration as named
unnamed_never(element_name) == FALSE

\* line 341: not element_name
unnamed(element_name) == element_name = None \/ element_name = ""

GenerateXmlElementBegin ==
    /\ Running("gen")
    /\ Top.phase = "begin"
    /\ calls' = calls \cup {<<Top.parent, Top.node>>}
    /\ LET element_name == schema[Top.node].name
           min_occurs == _get_occurrence(Top.node)[1]
           max_occurs == _get_occurrence(Top.node)[2]
       IN  IF unnamed(element_name)
           THEN /\ stack' = Tail(stack)
                /\ log' = log \cup {"Warning: skipping unnamed element"}
                /\ UNCHANGED <<status, err>>
           ELSE IF omitted(min_occurs, max_occurs)
           THEN /\ stack' = Tail(stack)
                /\ UNCHANGED <<status, err, log>>
           ELSE IF sampler_raises(min_occurs, max_occurs)
           THEN /\ Raise("ValueError: empty range for randrange()")
                /\ UNCHANGED log
           ELSE /\ \E n \in num_occurrences(min_occurs, max_occurs) :
                      stack' = IF n = 0 THEN Tail(stack)
                               ELSE <<[Top EXCEPT !.phase = "loop", !.idx = n]>>
                                    \o Tail(stack)
                /\ UNCHANGED <<status, err, log>>
    /\ UNCHANGED elems
    /\ UNCHANGED output
    /\ Fixed

\* the for loop of line 369 is over: the call returns
GenerateXmlElementReturn ==
    /\ Running("gen")
    /\ Top.phase = "loop"
    /\ Top.idx = 0
    /\ stack' = Tail(stack)
    /\ UNCHANGED <<elems, status, err, output, log, calls>>
    /\ Fixed

(***************************************************************************)
(* _generate_xml_element, lines 369-450: one iteration of the loop.  The   *)
(* outcomes of an iteration are the element as it is left, the exception   *)
(* raised (None when none), the content model to walk next (NoNode when    *)
(* none) and the messages printed.                                         *)
(***************************************************************************)
Outcome(xml_element, raised, walk, printed) ==
    [elem |-> xml_element, raised |-> raised, walk |-> walk, log |-> printed]

\* lines 376-409: the type is a global complexType or simpleType
global_type_outcomes(xml_element, xsd_type_def, xsd_type_name, rs) ==
    LET pa == _process_attributes(xml_element.attrib, xsd_type_def, rs)
        with_attrs == [xml_element EXCEPT !.attrib = pa.attrib]
        complex_type_content == content_model_of(xsd_type_def)
    IN  IF pa.raised # None THEN {Outcome(with_attrs, pa.raised, NoNode, pa.log)}
        ELSE IF complex_type_content # NoNode
        THEN {Outcome(with_attrs, None, complex_type_content, pa.log)}
        ELSE IF schema[xsd_type_def].tag = "simpleType"
        THEN {Outcome([with_attrs EXCEPT !.text = t], None, NoNode, pa.log) :
                t \in simple_type_text(xsd_type_def,
                         "SIMPLE_TYPE_NO_BASE_OR_ENUM_" \o xsd_type_name,
                         "SIMPLE_TYPE_NO_RESTRICTION_" \o xsd_type_name)}
        ELSE {Outcome(with_attrs, None, NoNode, pa.log)}

\* lines 411-450: an inline definition or a built-in type
inline_type_outcomes(xml_element, xsd_element_def, xsd_type_name, rs) ==
    LET pa == _process_attributes(xml_element.attrib, xsd_element_def, rs)
        with_attrs == [xml_element EXCEPT !.attrib = pa.attrib]
        inline_complex_type == find(xsd_element_def, "complexType")
        content_model == content_model_of(inline_complex_type)
        inline_simple_type == find(xsd_element_def, "simpleType")
    IN  IF pa.raised # None THEN {Outcome(with_attrs, pa.raised, NoNode, pa.log)}
        ELSE IF inline_complex_type # NoNode
        THEN {Outcome(with_attrs, None, content_model, pa.log)}
        ELSE IF inline_simple_type # NoNode
        THEN {Outcome([with_attrs EXCEPT !.text = t], None, NoNode, pa.log) :
                t \in simple_type_text(inline_simple_type,
                         "INLINE_SIMPLE_TYPE_NO_BASE_OR_ENUM",
                         "INLINE_SIMPLE_TYPE_NO_RESTRICTION")}
        ELSE IF xsd_type_name = None           \* None.lower()
        THEN {Outcome(with_attrs, "AttributeError", NoNode, pa.log)}
        ELSE {Outcome([with_attrs EXCEPT !.text = t], None, NoNode, pa.log) :
                t \in sample_values(xsd_type_name)}

instance_outcomes(parent, xsd_element_def, rs) ==
    LET xml_element == Element(schema[xsd_element_def].name, parent, xsd_element_def)
        xsd_type_name == _get_xsd_type_name(xsd_element_def)
        xsd_type_def == _get_type_definition(AsName(xsd_type_name.value))
    IN  IF xsd_type_name.raised # None
        THEN {Outcome(xml_element, xsd_type_name.raised, NoNode, {})}
        ELSE IF xsd_type_def # NoNode
        THEN global_type_outcomes(xml_element, xsd_type_def, xsd_type_name.value, rs)
        ELSE inline_type_outcomes(xml_element, xsd_element_def, xsd_type_name.value, rs)

GenerateXmlElementInstance ==
    /\ Running("gen")
    /\ Top.phase = "loop"
    /\ Top.idx > 0
    /\ \E rs \in [1..MaxAttributes -> Draws] :
         \E o \in instance_outcomes(Top.parent, Top.node, rs) :
            /\ elems' = Append(elems, o.elem)
            /\ log' = log \cup o.log
            /\ IF o.raised # None THEN Raise(o.raised)
               ELSE Call(IF o.walk # NoNode
                         THEN <<PcmFrame(Len(elems) + 1, o.walk)>> ELSE <<>>,
                         <<[Top EXCEPT !.idx = @ - 1]>> \o Tail(stack))
    /\ UNCHANGED <<output, calls>>
    /\ Fixed

(***************************************************************************)
(* _process_content_model, lines 200-209: xs:sequence and xs:all.  One     *)
(* step calls _generate_xml_element on the next xs:element child; after    *)
(* the last one the xs:group children are reported and the call returns.   *)
(***************************************************************************)
ProcessSequence ==
    /\ Running("pcm")
    /\ schema[Top.node].tag \in {"sequence", "all"}
    /\ LET children == findall(Top.node, "element")
       IN  IF Top.idx <= Len(children)
           THEN /\ Call(<<GenFrame(Top.parent, children[Top.idx])>>,
                        <<[Top EXCEPT !.idx = @ + 1]>> \o Tail(stack))
                /\ UNCHANGED log
           ELSE /\ stack' = Tail(stack)
                /\ log' = IF findall(Top.node, "group") # <<>>
                          THEN log \cup {"Warning: xs:group not resolved"} ELSE log
                /\ UNCHANGED <<status, err>>
    /\ UNCHANGED <<elems, output, calls>>
    /\ Fixed

(***************************************************************************)
(* _process_content_model, lines 210-218: xs:choice.                       *)
(***************************************************************************)
\* a walker that takes the last alternative of a choice
first_choice_last(choice) ==
    IF findall(choice, "element") = <<>> THEN NoNode
    ELSE findall(choice, "element")[Len(findall(choice, "element"))]

first_choice(choice) == find(choice, "element")

ProcessChoice ==
    /\ Running("pcm")
    /\ schema[Top.node].tag = "choice"
    /\ IF first_choice(Top.node) # NoNode
       THEN /\ Call(<<GenFrame(Top.parent, first_choice(Top.node))>>,
                    Tail(stack))
            /\ UNCHANGED log
       ELSE /\ stack' = Tail(stack)
            /\ log' = log \cup {"Warning: xs:choice contains no elements"}
            /\ UNCHANGED <<status, err>>
    /\ UNCHANGED <<elems, output, calls>>
    /\ Fixed

(***************************************************************************)
(* _process_content_model, lines 219-257: xs:complexContent.  The first    *)
(* step applies the base type of an extension (lines 224-241) or the whole *)
(* restriction (lines 248-255); the second step, after the base's content  *)
(* model has been walked, applies the extension's own attributes and       *)
(* sequence (lines 243-247).                                               *)
(***************************************************************************)
\* the frames that walk the xs:sequence of an extension or restriction, if any
own_sequence(target, derivation) ==
    IF find(derivation, "sequence") # NoNode
    THEN <<PcmFrame(target, find(derivation, "sequence"))>> ELSE <<>>

ProcessComplexContent ==
    /\ Running("pcm")
    /\ schema[Top.node].tag = "complexContent"
    /\ Top.phase = "base"
    /\ LET extension == find(Top.node, "extension")
           restriction == find(Top.node, "restriction")
           base_type_def == _get_type_definition(schema[extension].base)
           base_content_model == base_content_model_of(base_type_def)
           after == <<[Top EXCEPT !.phase = "own"]>> \o Tail(stack)
       IN  \E rs \in [1..MaxAttributes -> Draws] :
             IF extension # NoNode
             THEN IF Truthy(base_type_def)
                  THEN LET pa == _process_attributes(elems[Top.parent].attrib,
                                                     base_type_def, rs)
                       IN  /\ elems' = [elems EXCEPT ![Top.parent].attrib = pa.attrib]
                           /\ log' = log \cup pa.log
                           /\ IF pa.raised # None THEN Raise(pa.raised)
                              ELSE Call(IF base_content_model # NoNode
                                        THEN <<PcmFrame(Top.parent, base_content_model)>>
                                        ELSE <<>>, after)
                  ELSE /\ stack' = after
                       /\ UNCHANGED <<elems, status, err, log>>
             ELSE IF restriction # NoNode
             THEN LET pa == _process_attributes(elems[Top.parent].attrib, restriction, rs)
                  IN  /\ elems' = [elems EXCEPT ![Top.parent].attrib = pa.attrib]
                      /\ log' = log \cup pa.log
                                    \cup {"Warning: xs:complexContent with restriction"}
                      /\ IF pa.raised # None THEN Raise(pa.raised)
                         ELSE Call(own_sequence(Top.parent, restriction),
                                   Tail(stack))
             ELSE /\ stack' = Tail(stack)
                  /\ log' = log \cup {"Warning: xs:complexContent has no extension or restriction"}
                  /\ UNCHANGED <<elems, status, err>>
    /\ UNCHANGED <<output, calls>>
    /\ Fixed

ProcessExtension ==
    /\ Running("pcm")
    /\ schema[Top.node].tag = "complexContent"
    /\ Top.phase = "own"
    /\ LET extension == find(Top.node, "extension")
       IN  \E rs \in [1..MaxAttributes -> Draws] :
             LET pa == _process_attributes(elems[Top.parent].attrib, extension, rs)
             IN  /\ elems' = [elems EXCEPT ![Top.parent].attrib = pa.attrib]
                 /\ log' = log \cup pa.log
                 /\ IF pa.raised # None THEN Raise(pa.raised)
                    ELSE Call(own_sequence(Top.parent, extension),
                              Tail(stack))
    /\ UNCHANGED <<output, calls>>
    /\ Fixed

(***************************************************************************)
(* _process_content_model, lines 259-299: xs:simpleContent.                *)
(***************************************************************************)
ProcessSimpleContent ==
    /\ Running("pcm")
    /\ schema[Top.node].tag = "simpleContent"
    /\ LET extension == find(Top.node, "extension")
           restriction == find(Top.node, "restriction")
           derivation == IF extension # NoNode THEN extension ELSE restriction
           texts == IF extension # NoNode THEN extension_text(extension)
                    ELSE restriction_text(restriction)
       IN  IF derivation = NoNode
           THEN /\ stack' = Tail(stack)
                /\ log' = log \cup {"Warning: simpleContent has no extension or restriction"}
                /\ UNCHANGED <<elems, status, err>>
           ELSE \E rs \in [1..MaxAttributes -> Draws] : \E t \in texts :
                  LET pa == _process_attributes(elems[Top.parent].attrib, derivation, rs)
                  IN  /\ elems' = [elems EXCEPT ![Top.parent].text = t,
                                                ![Top.parent].attrib = pa.attrib]
                      /\ log' = log \cup pa.log
                      /\ IF pa.raised # None THEN Raise(pa.raised)
                         ELSE /\ stack' = Tail(stack)
                              /\ UNCHANGED <<status, err>>
    /\ UNCHANGED <<output, calls>>
    /\ Fixed

(***************************************************************************)
(* generate_xml line 487 and main lines 510-511: the finished tree is      *)
(* serialised and written to the output file.                              *)
(***************************************************************************)
tostring(tree) ==
    [xml_declaration |-> TRUE, encoding |-> "utf-8",
     tree |-> [i \in DOMAIN tree |->
                 [tag |-> tree[i].tag, parent |-> tree[i].parent,
                  attrib |-> tree[i].attrib, text |-> tree[i].text,
                  nsmap |-> tree[i].nsmap]]]

Serialize ==
    /\ status = "running"
    /\ stack = <<>>
    /\ output' = <<tostring(elems)>>
    /\ status' = "done"
    /\ UNCHANGED <<elems, stack, err, log, calls>>
    /\ Fixed

Next ==
    \/ \E root_element_name \in RootNames : GenerateXml(root_element_name)
    \/ GenerateXmlElementBegin
    \/ GenerateXmlElementInstance
    \/ GenerateXmlElementReturn
    \/ ProcessSequence
    \/ ProcessChoice
    \/ ProcessComplexContent
    \/ ProcessExtension
    \/ ProcessSimpleContent
    \/ Serialize

Spec == Init /\ [][Next]_vars

\* a generate_xml call that has begun runs on: the interpreter executes the
\* next step of the generator until the call returns or raises
Step ==
    \/ GenerateXmlElementBegin
    \/ GenerateXmlElementInstance
    \/ GenerateXmlElementReturn
    \/ ProcessSequence
    \/ ProcessChoice
    \/ ProcessComplexContent
    \/ ProcessExtension
    \/ ProcessSimpleContent
    \/ Serialize

\* main: one generator, one generate_xml call, run to its end
Main ==
    \/ \E root_element_name \in RootNames : runs = 0 /\ GenerateXml(root_element_name)
    \/ Step

FairSpec == Init /\ [][Main]_vars /\ WF_vars(Step)

(***************************************************************************)
(* What the claims speak of.                                               *)
(***************************************************************************)
\* the instances created under parent element p for declaration d
Instances(p, d) == {i \in DOMAIN elems : elems[i].parent = p /\ elems[i].decl = d}

\* the instances the running call for (p, d) has still to create
Pending(p, d) ==
    LET frames == {k \in DOMAIN stack : /\ stack[k].kind = "gen"
                                        /\ stack[k].phase = "loop"
                                        /\ stack[k].parent = p
                                        /\ stack[k].node = d}
    IN  IF frames = {} THEN 0 ELSE stack[CHOOSE k \in frames : TRUE].idx

Named(d) == schema[d].name # None

\* the occurrence bounds a declaration states, by the XSD defaults
DeclaredMin(d) == IF schema[d].minOccurs = None THEN 1 ELSE ParseInt(schema[d].minOccurs)

DeclaredUnbounded(d) == schema[d].maxOccurs = "unbounded"

DeclaredMax(d) == IF schema[d].maxOccurs = None THEN 1 ELSE ParseInt(schema[d].maxOccurs)

\* the xs:element children of the xs:choice nodes, first ones and later ones
ChoiceNodes == {c \in DOMAIN schema : schema[c].tag = "choice"}

Alternatives(c) == {schema[c].kids[j] : j \in {j \in DOMAIN schema[c].kids :
                                                 schema[schema[c].kids[j]].tag = "element"}}

FirstAlternative(c) ==
    IF Alternatives(c) = {} THEN NoNode
    ELSE schema[c].kids[CHOOSE j \in DOMAIN schema[c].kids :
                          /\ schema[schema[c].kids[j]].tag = "element"
                          /\ \A k \in 1..(j - 1) :
                                schema[schema[c].kids[k]].tag # "element"]

LaterAlternatives(c) == Alternatives(c) \ {FirstAlternative(c)}

(***************************************************************************)
(* C1: in every produced document each walked named declaration with       *)
(* minOccurs <= maxOccurs has between minOccurs and maxOccurs instances     *)
(* under its parent, and the sampler returns a count for every such        *)
(* declaration, maxOccurs="unbounded" with minOccurs >= 3 included.         *)
(* The code draws from randint(min, min(min + 1, 2)), an empty range for   *)
(* minOccurs >= 3: TLC finds this formula violated.                        *)
(***************************************************************************)
C1_OccurrenceWithinBounds ==
    /\ err # "ValueError: empty range for randrange()"
    /\ \A c \in calls :
         (Named(c[2]) /\ (DeclaredUnbounded(c[2]) \/ DeclaredMin(c[2]) <= DeclaredMax(c[2])))
         => /\ ~DeclaredUnbounded(c[2])
                 => Cardinality(Instances(c[1], c[2])) <= DeclaredMax(c[2])
            /\ status = "done"
                 => Cardinality(Instances(c[1], c[2])) >= DeclaredMin(c[2])

(***************************************************************************)
(* C2: a walked named declaration with minOccurs = maxOccurs = 1 gets      *)
(* exactly one instance under the parent: at every moment the instances    *)
(* created and the instances the call has still to create add up to one.   *)
(***************************************************************************)
C2_ExactlyOne ==
    \A c \in calls :
        (Named(c[2]) /\ DeclaredMin(c[2]) = 1
            /\ ~DeclaredUnbounded(c[2]) /\ DeclaredMax(c[2]) = 1)
        => Cardinality(Instances(c[1], c[2])) + Pending(c[1], c[2]) = 1

\* a finished document in which a declaration with explicit minOccurs="1"
\* maxOccurs="1" was walked and has its one instance
C2_Witness ==
    /\ status = "done"
    /\ \E c \in calls :
         /\ schema[c[2]].minOccurs = "1"
         /\ schema[c[2]].maxOccurs = "1"
         /\ Cardinality(Instances(c[1], c[2])) = 1

(***************************************************************************)
(* C3: for a declaration with minOccurs = 0 and maxOccurs = 0 the call of  *)
(* _generate_xml_element returns at once, creates no instance and leaves   *)
(* the whole tree (the parent's children, attributes and text) as it was.  *)
(***************************************************************************)
ZeroZero(d) ==
    Named(d) /\ schema[d].minOccurs = "0" /\ schema[d].maxOccurs = "0"

C3_ZeroOccurrence ==
    /\ [](\A c \in calls : ZeroZero(c[2]) => Instances(c[1], c[2]) = {})
    /\ [][(Running("gen") /\ Top.phase = "begin" /\ ZeroZero(Top.node))
            => (elems' = elems /\ stack' = Tail(stack) /\ status' = status)]_vars

\* a finished document for which a 0/0 declaration was walked, with the
\* declaration after it in the sequence generated
C3_Witness ==
    /\ status = "done"
    /\ \E c \in calls :
         /\ ZeroZero(c[2])
         /\ Instances(c[1], c[2]) = {}
         /\ \E i \in DOMAIN elems : elems[i].parent = c[1] /\ elems[i].tag = "Tail"

(***************************************************************************)
(* C4: of the xs:element alternatives of an xs:choice only the first is    *)
(* ever handed to the element generator and only it has instances.         *)
(***************************************************************************)
C4_FirstAlternativeOnly ==
    \A c \in ChoiceNodes :
        /\ \A call \in calls : call[2] \notin LaterAlternatives(c)
        /\ \A i \in DOMAIN elems : elems[i].decl \notin LaterAlternatives(c)

\* a finished document with an instance of the first alternative of a choice
\* that has later alternatives
C4_Witness ==
    /\ status = "done"
    /\ \E c \in ChoiceNodes :
         /\ LaterAlternatives(c) # {}
         /\ \E i \in DOMAIN elems : elems[i].decl = FirstAlternative(c)

(***************************************************************************)
(* C5: a named attribute whose declared type is an enumeration (inline     *)
(* restriction with enumeration facets, or a reference to a global simple  *)
(* type restricted by enumeration facets) always gets one of the declared  *)
(* values.  Attribute names are unique in each schema of the model, so the *)
(* name on an element identifies the declaration.  The code synthesizes    *)
(* the value from the type name alone: TLC finds this formula violated.    *)
(***************************************************************************)
EnumFacets(simple_type) ==
    LET restrictions == {k \in DOMAIN schema : /\ schema[k].tag = "restriction"
                                               /\ \E j \in DOMAIN schema[simple_type].kids :
                                                     schema[simple_type].kids[j] = k}
    IN  {schema[f].value : f \in {f \in DOMAIN schema :
            /\ schema[f].tag = "enumeration"
            /\ \E r \in restrictions : \E j \in DOMAIN schema[r].kids : schema[r].kids[j] = f}}

GlobalSimpleTypes ==
    {k \in DOMAIN schema : /\ schema[k].tag = "simpleType"
                           /\ \E j \in DOMAIN schema[1].kids : schema[1].kids[j] = k}

DeclaredEnumeration(a) ==
    LET inline == {k \in DOMAIN schema : /\ schema[k].tag = "simpleType"
                                         /\ \E j \in DOMAIN schema[a].kids : schema[a].kids[j] = k}
        named == {k \in GlobalSimpleTypes :
                    /\ schema[a].type # NoAttr
                    /\ schema[k].name = schema[a].type[Len(schema[a].type)]}
    IN  UNION {EnumFacets(k) : k \in inline \cup named}

NamedAttributes == {a \in DOMAIN schema : schema[a].tag = "attribute" /\ Named(a)}

C5_AttributeEnumValue ==
    \A i \in DOMAIN elems : \A a \in NamedAttributes :
        (schema[a].name \in DOMAIN elems[i].attrib /\ DeclaredEnumeration(a) # {})
        => elems[i].attrib[schema[a].name] \in DeclaredEnumeration(a)

(***************************************************************************)
(* C6: once attribute processing has visited the definition of an          *)
(* element's global type, the element carries every named attribute        *)
(* declared there, with a non-empty value, whatever the attribute's type   *)
(* information is.  For an inline simpleType without restriction, or with  *)
(* a restriction without base, the code raises instead: TLC finds this     *)
(* formula violated.                                                       *)
(***************************************************************************)
GlobalTypeOf(d) ==
    IF _get_xsd_type_name(d).raised # None THEN NoNode
    ELSE _get_type_definition(AsName(_get_xsd_type_name(d).value))

AttributesOf(definition) ==
    {a \in NamedAttributes : \E j \in DOMAIN schema[definition].kids :
                                 schema[definition].kids[j] = a}

C6_NamedAttributeSet ==
    \A i \in DOMAIN elems :
        (elems[i].decl # NoNode /\ GlobalTypeOf(elems[i].decl) # NoNode)
        => \A a \in AttributesOf(GlobalTypeOf(elems[i].decl)) :
              /\ schema[a].name \in DOMAIN elems[i].attrib
              /\ elems[i].attrib[schema[a].name] # ""

(***************************************************************************)
(* C7: generate_xml called with a root name that no global element has,    *)
(* or with no root name on a schema without global elements, ends in a     *)
(* ValueError with no element created, no call of the element generator    *)
(* made and the output file left as it was.                                *)
(***************************************************************************)
GlobalElements ==
    {k \in DOMAIN schema : /\ schema[k].tag = "element"
                           /\ \E j \in DOMAIN schema[1].kids : schema[1].kids[j] = k}

RootAbsent(name) ==
    IF name # None THEN \A k \in GlobalElements : schema[k].name # name
    ELSE GlobalElements = {}

C7_MissingRootFails ==
    /\ []((runs > 0 /\ RootAbsent(root_arg))
            => /\ status = "error"
               /\ err \in {"ValueError: Root element not found in XSD",
                           "ValueError: No global element definition found in the XSD"}
               /\ elems = <<>>
               /\ stack = <<>>
               /\ calls = {})
    /\ [][(runs' = runs + 1 /\ RootAbsent(root_arg')) => output' = output]_vars

\* a generator on which a call naming an unknown root has failed and then a
\* call without root name fails for want of any global element
C7_Witness ==
    /\ runs = 2
    /\ previous.root = "Missing"
    /\ root_arg = None
    /\ GlobalElements = {}
    /\ status = "error"
    /\ output = <<>>

(***************************************************************************)
(* C8: the root declaration generation starts from is the global element   *)
(* of the requested name, or without a name the first global element in    *)
(* document order: the root element is named after it and it is the only   *)
(* declaration generated under the root element.                           *)
(***************************************************************************)
ExpectedRoot ==
    LET fits(j) == /\ schema[schema[1].kids[j]].tag = "element"
                   /\ root_arg # None => schema[schema[1].kids[j]].name = root_arg
    IN  schema[1].kids[CHOOSE j \in DOMAIN schema[1].kids :
                         fits(j) /\ \A k \in 1..(j - 1) : ~fits(k)]

C8_RootDeclaration ==
    elems # <<>>
    => /\ ~RootAbsent(root_arg)
       /\ elems[1].tag = schema[ExpectedRoot].name
       /\ \A c \in calls : c[1] = 1 => c[2] = ExpectedRoot
       /\ \A k \in DOMAIN stack :
            (stack[k].kind = "gen" /\ stack[k].parent = 1) => stack[k].node = ExpectedRoot
       /\ \A i \in DOMAIN elems : elems[i].parent = 1 => elems[i].decl = ExpectedRoot

\* on a schema whose first child is a type and that has two global elements:
\* a call naming the second one built it, and a call without name builds the first
C8_Witness ==
    /\ status = "done"
    /\ root_arg = None
    /\ schema[schema[1].kids[1]].tag # "element"
    /\ Cardinality(GlobalElements) = 2
    /\ elems[1].tag = "First"
    /\ previous.root = "Second"
    /\ previous.tree # <<>>
    /\ previous.tree[1].tag = "Second"

(***************************************************************************)
(* C9: two generate_xml calls on the same schema with the same root name   *)
(* build trees of the same structure.  With the path of an element the     *)
(* tags from the root down to it: elements of the same path carry the same *)
(* attribute names and both or neither have text; a path one tree has      *)
(* under a parent present in both is in the other tree too unless its      *)
(* declaration is optional (minOccurs = 0); and siblings of different tags *)
(* come in the same order.                                                 *)
(***************************************************************************)
RECURSIVE PathOf(_, _)
PathOf(tree, i) ==
    IF tree[i].parent = 0 THEN <<tree[i].tag>>
    ELSE Append(PathOf(tree, tree[i].parent), tree[i].tag)

HasPath(tree, path) == \E i \in DOMAIN tree : PathOf(tree, i) = path

Covers(t1, t2) ==
    \A i \in DOMAIN t1 :
        (t1[i].parent # 0 /\ HasPath(t2, PathOf(t1, t1[i].parent)))
        => \/ HasPath(t2, PathOf(t1, i))
           \/ DeclaredMin(t1[i].decl) = 0

SameOrder(t1, t2) ==
    \A i, j \in DOMAIN t1 : \A k, l \in DOMAIN t2 :
        (/\ i < j /\ t1[i].parent = t1[j].parent /\ t1[i].parent # 0
         /\ k < l /\ t2[k].parent = t2[l].parent /\ t2[k].parent # 0
         /\ t1[i].tag # t1[j].tag
         /\ PathOf(t1, t1[i].parent) = PathOf(t2, t2[k].parent))
        => ~(t2[k].tag = t1[j].tag /\ t2[l].tag = t1[i].tag)

SameStructure(t1, t2) ==
    /\ t1[1].tag = t2[1].tag
    /\ \A i \in DOMAIN t1 : \A j \in DOMAIN t2 :
          PathOf(t1, i) = PathOf(t2, j)
          => /\ DOMAIN t1[i].attrib = DOMAIN t2[j].attrib
             /\ (t1[i].text = None) <=> (t2[j].text = None)
    /\ Covers(t1, t2)
    /\ Covers(t2, t1)
    /\ SameOrder(t1, t2)

C10_NeverAborts == err \notin {"TypeError", "AttributeError"}

(***************************************************************************)
(* C11: the root element and every element the element generator creates   *)
(* carry the namespace map of the generator: the schema's targetNamespace   *)
(* as default namespace, or no namespace when the schema declares none;     *)
(* the same holds of the elements of the document written.                  *)
(***************************************************************************)
C11_TargetNamespace ==
    /\ \A i \in DOMAIN elems : elems[i].nsmap = schema[1].targetNamespace
    /\ output # <<>>
         => \A i \in DOMAIN output[1].tree :
               output[1].tree[i].nsmap = schema[1].targetNamespace

\* a written document of a schema with a target namespace, with an element
\* created two levels below the root element
C11_Witness ==
    /\ status = "done"
    /\ output = <<tostring(elems)>>
    /\ schema[1].targetNamespace = "urn:sample"
    /\ \E i \in DOMAIN elems :
          /\ elems[i].parent > 1
          /\ elems[i].nsmap = "urn:sample"

(***************************************************************************)
(* The schema graph: a global type uses the global types that the element  *)
(* declarations and the extension / restriction bases inside its           *)
(* definition name (by local name, as the registry is keyed).  The schema  *)
(* is acyclic when no global type uses itself, directly or through others. *)
(***************************************************************************)
RECURSIVE Descendants(_)
Descendants(n) ==
    {n} \cup UNION {Descendants(schema[n].kids[j]) : j \in DOMAIN schema[n].kids}

GlobalTypes ==
    {k \in DOMAIN schema : /\ schema[k].tag \in {"complexType", "simpleType"}
                           /\ schema[k].name # None
                           /\ \E j \in DOMAIN schema[1].kids : schema[1].kids[j] = k}

TypeNamed(qname) ==
    IF qname = NoAttr THEN {}
    ELSE {k \in GlobalTypes : schema[k].name = qname[Len(qname)]}

Uses(t) ==
    UNION {TypeNamed(schema[d].type) \cup TypeNamed(schema[d].base) :
             d \in {d \in Descendants(t) :
                      schema[d].tag \in {"element", "extension", "restriction"}}}

RECURSIVE UsesWithin(_, _)
UsesWithin(types, steps) ==
    IF steps = 0 THEN types
    ELSE UsesWithin(types \cup UNION {Uses(t) : t \in types}, steps - 1)

Acyclic == \A t \in GlobalTypes : t \notin UsesWithin(Uses(t), Cardinality(GlobalTypes))

(***************************************************************************)
(* C12: on an acyclic schema every generate_xml call that has begun comes  *)
(* to an end, whatever the random draws are: it returns its document or    *)
(* raises one of the generator's own errors, and never runs into the       *)
(* recursion limit.                                                        *)
(***************************************************************************)
C12_AcyclicTerminates ==
    /\ [](Acyclic => err # "RecursionError")
    /\ (Acyclic /\ status = "running")
         ~> (status = "done" \/ (status = "error" /\ err # "RecursionError"))

\* a finished document of an acyclic schema in which a declaration with
\* maxOccurs="unbounded" was generated twice under one parent
C12_Witness ==
    /\ status = "done"
    /\ Acyclic
    /\ \E c \in calls :
          /\ DeclaredUnbounded(c[2])
          /\ Cardinality(Instances(c[1], c[2])) = 2

(***************************************************************************)
(* C13: on a schema where an element with maxOccurs="unbounded" has a type *)
(* whose content model contains that element again, a generate_xml call    *)
(* still comes to an end by itself: the recursion stops before the         *)
(* recursion limit.  The sampler never returns 0 for maxOccurs="unbounded" *)
(* (a draw of 0 is forced to 1), so every level creates a further level:   *)
(* TLC finds this formula violated.                                        *)
(***************************************************************************)
SelfContaining(d) ==
    /\ schema[d].tag = "element"
    /\ DeclaredUnbounded(d)
    /\ \E t \in TypeNamed(schema[d].type) : d \in Descendants(t)

C13_RecursionTerminates ==
    (\E d \in DOMAIN schema : SelfContaining(d)) => err # "RecursionError"

(***************************************************************************)
(* C14: for a declaration with maxOccurs="unbounded" and minOccurs = m the *)
(* counts the sampler can return are exactly the integers from m to        *)
(* max(m, m + 1, 2), 0 and 2 included for m = 0.  The code draws from      *)
(* m .. min(m + 1, 2) and turns 0 into 1: for m = 0 the only count is 1,   *)
(* for m = 2 it is 2, for m >= 3 the draw raises.  TLC finds this formula  *)
(* violated.                                                               *)
(***************************************************************************)
SamplerCalled(d) == Running("gen") /\ Top.phase = "begin" /\ Top.node = d /\ Named(d)

UnboundedRange(m) == m..(IF m + 1 > 2 THEN m + 1 ELSE 2)

C14_UnboundedRange ==
    \A d \in DOMAIN schema :
        (SamplerCalled(d) /\ DeclaredUnbounded(d))
        => /\ ~sampler_raises(DeclaredMin(d), Inf)
           /\ num_occurrences(DeclaredMin(d), Inf) = UnboundedRange(DeclaredMin(d))

(***************************************************************************)
(* C15: for a declaration with finite maxOccurs = M > 1 and minOccurs =    *)
(* m <= M the counts the sampler can return are exactly the integers from  *)
(* max(m, 1) to M (a draw of 0 becomes 1), and the instances created under *)
(* the parent, once the call is over, are that many.                       *)
(***************************************************************************)
FiniteRange(m, M) == (IF m > 1 THEN m ELSE 1)..M

FiniteAboveOne(d) ==
    Named(d) /\ ~DeclaredUnbounded(d) /\ DeclaredMax(d) > 1 /\ DeclaredMin(d) <= DeclaredMax(d)

C15_FiniteRange ==
    /\ \A d \in DOMAIN schema :
          (SamplerCalled(d) /\ FiniteAboveOne(d))
          => /\ ~sampler_raises(DeclaredMin(d), DeclaredMax(d))
             /\ num_occurrences(DeclaredMin(d), DeclaredMax(d))
                   = FiniteRange(DeclaredMin(d), DeclaredMax(d))
    /\ \A c \in calls :
          (FiniteAboveOne(c[2]) /\ ~SamplerCalled(c[2]))
          => Cardinality(Instances(c[1], c[2])) + Pending(c[1], c[2])
                \in FiniteRange(DeclaredMin(c[2]), DeclaredMax(c[2]))

\* a finished document in which a declaration with minOccurs="0" and a finite
\* maxOccurs above 1 was walked and has its instances, the declared maximum
\* of them
C15_Witness ==
    /\ status = "done"
    /\ \E c \in calls :
          /\ FiniteAboveOne(c[2])
          /\ schema[c[2]].minOccurs = "0"
          /\ Cardinality(Instances(c[1], c[2])) = DeclaredMax(c[2])

(***************************************************************************)
(* C16: an element or attribute declared with a built-in type (xs:string,  *)
(* xs:int, ...) gets a synthesized value of that primitive and is never    *)
(* built from a type of the registry, also when the schema declares a      *)
(* global type of the same local name: the element has that text, no       *)
(* attributes and no children.  The code drops the xs: prefix and then     *)
(* looks the local name up in the registry: TLC finds this formula         *)
(* violated.                                                               *)
(***************************************************************************)
BuiltIn(d) == schema[d].type # NoAttr /\ Len(schema[d].type) = 2 /\ schema[d].type[1] = "xs"

C16_BuiltInPrimitive ==
    /\ \A i \in DOMAIN elems :
          (elems[i].decl # NoNode /\ BuiltIn(elems[i].decl))
          => /\ elems[i].text \in sample_values(schema[elems[i].decl].type[2])
             /\ DOMAIN elems[i].attrib = {}
             /\ \A j \in DOMAIN elems : elems[j].parent # i
    /\ \A i \in DOMAIN elems : \A a \in NamedAttributes :
          (BuiltIn(a) /\ schema[a].name \in DOMAIN elems[i].attrib)
          => elems[i].attrib[schema[a].name] \in sample_values(schema[a].type[2])

(***************************************************************************)
(* C17: for an element declared with a type name that is not built-in the  *)
(* prefix is dropped and the local name looked up among the global types.  *)
(* If a type of that name exists the instance is built from it: in the     *)
(* finished document it carries the named attributes declared directly in  *)
(* the type, the element generator was called under it for every element   *)
(* of the type's sequence (the first one of its choice), and a simple type *)
(* or simple content gave it text.  If none exists the instance has no     *)
(* attributes and no children, its text is the value synthesized from the  *)
(* local name, and no error is raised.                                     *)
(***************************************************************************)
NonBuiltIn(d) == schema[d].tag = "element" /\ schema[d].type # NoAttr /\ ~BuiltIn(d)

ElementsOf(model) ==
    {schema[model].kids[j] : j \in {j \in DOMAIN schema[model].kids :
                                      schema[schema[model].kids[j]].tag = "element"}}

Child(n, tags) ==
    {schema[n].kids[j] : j \in {j \in DOMAIN schema[n].kids :
                                  schema[schema[n].kids[j]].tag \in tags}}

BuiltFrom(i, t) ==
    /\ \A a \in AttributesOf(t) : schema[a].name \in DOMAIN elems[i].attrib
    /\ \A m \in Child(t, {"sequence", "all"}) : \A d \in ElementsOf(m) : <<i, d>> \in calls
    /\ \A m \in Child(t, {"choice"}) :
          ElementsOf(m) # {} => <<i, FirstAlternative(m)>> \in calls
    /\ (schema[t].tag = "simpleType" \/ Child(t, {"simpleContent"}) # {})
          => elems[i].text # None

C17_NamedTypeResolution ==
    \A i \in DOMAIN elems :
        (elems[i].decl # NoNode /\ NonBuiltIn(elems[i].decl))
        => LET type_attr == schema[elems[i].decl].type
           IN  IF TypeNamed(type_attr) = {}
               THEN /\ elems[i].text \in sample_values(type_attr[Len(type_attr)])
                    /\ DOMAIN elems[i].attrib = {}
                    /\ \A j \in DOMAIN elems : elems[j].parent # i
                    /\ err = None
               ELSE status = "done" => \A t \in TypeNamed(type_attr) : BuiltFrom(i, t)

\* a finished document with an instance whose declaration names a type of the
\* schema with a prefix: it has an attribute and a child from that type
C17_Witness ==
    /\ status = "done"
    /\ \E i \in DOMAIN elems :
          /\ elems[i].decl # NoNode
          /\ NonBuiltIn(elems[i].decl)
          /\ Len(schema[elems[i].decl].type) = 2
          /\ TypeNamed(schema[elems[i].decl].type) # {}
          /\ DOMAIN elems[i].attrib # {}
          /\ \E j \in DOMAIN elems : elems[j].parent = i

(***************************************************************************)
(* C18: for an element whose type is a complexContent extension with a     *)
(* base that names a global complex type of the schema, bare or prefixed,  *)
(* the base type is applied to the element first and the extension's own   *)
(* content afterwards: in the finished document the element carries the    *)
(* base's attributes, the element generator was called under it for every  *)
(* element of the base's sequence, and every child made from the base      *)
(* precedes every child made from the extension.  The code looks the base  *)
(* attribute up as written, so a prefixed base is never found and the base *)
(* is skipped: TLC finds this formula violated.                            *)
(***************************************************************************)
ComplexTypeNamed(qname) == {t \in TypeNamed(qname) : schema[t].tag = "complexType"}

\* the extensions (or restrictions) of the complexContent of type t
Derivations(t, tags) == UNION {Child(cc, tags) : cc \in Child(t, {"complexContent"})}

\* the element declarations directly in the content model of n
ContentElements(n, models) == UNION {ElementsOf(m) : m \in Child(n, models)}

C18_BaseBeforeExtension ==
    \A i \in DOMAIN elems :
        (status = "done" /\ elems[i].decl # NoNode /\ NonBuiltIn(elems[i].decl))
        => \A t \in ComplexTypeNamed(schema[elems[i].decl].type) :
             \A e \in Derivations(t, {"extension"}) :
               \A b \in ComplexTypeNamed(schema[e].base) :
                  /\ \A a \in AttributesOf(b) : schema[a].name \in DOMAIN elems[i].attrib
                  /\ \A d \in ContentElements(b, {"sequence", "all"}) : <<i, d>> \in calls
                  /\ \A j, k \in DOMAIN elems :
                        (/\ elems[j].parent = i /\ elems[k].parent = i
                         /\ elems[j].decl \in ContentElements(b, {"sequence", "all", "choice"})
                         /\ elems[k].decl \in ContentElements(e, {"sequence", "all", "choice"}))
                        => j < k

(***************************************************************************)
(* C19: the content model placed directly inside a complexContent          *)
(* extension or restriction is applied whatever its kind: for a sequence   *)
(* or an all the element generator is called under the target element for  *)
(* every element declaration of it, for a choice for its first one.  The   *)
(* code looks for an xs:sequence only, so an all or a choice under the     *)
(* extension / restriction produces nothing: TLC finds this formula        *)
(* violated.                                                               *)
(***************************************************************************)
C19_DerivationContent ==
    \A i \in DOMAIN elems :
        (status = "done" /\ elems[i].decl # NoNode /\ NonBuiltIn(elems[i].decl))
        => \A t \in ComplexTypeNamed(schema[elems[i].decl].type) :
             \A r \in Derivations(t, {"extension", "restriction"}) :
                /\ \A d \in ContentElements(r, {"sequence", "all"}) : <<i, d>> \in calls
                /\ \A m \in Child(r, {"choice"}) :
                      ElementsOf(m) # {} => <<i, FirstAlternative(m)>> \in calls

(***************************************************************************)
(* C20: the instances generated from an xs:sequence or xs:all appear under *)
(* the target element in the order of their declarations: of two siblings  *)
(* made from declarations of one sequence / all the earlier sibling is not *)
(* from the later declaration.  Hence every instance of a declaration      *)
(* precedes every instance of a later one and the instances of one         *)
(* declaration are contiguous.                                             *)
(***************************************************************************)
SequenceNodes == {m \in DOMAIN schema : schema[m].tag \in {"sequence", "all"}}

Position(m, d) == CHOOSE j \in DOMAIN schema[m].kids : schema[m].kids[j] = d

C20_DeclarationOrder ==
    \A m \in SequenceNodes : \A i, j \in DOMAIN elems :
        (/\ i < j
         /\ elems[i].parent = elems[j].parent
         /\ elems[i].decl \in ElementsOf(m)
         /\ elems[j].decl \in ElementsOf(m))
        => Position(m, elems[i].decl) <= Position(m, elems[j].decl)

\* a finished document in which two instances of one declaration of a
\* sequence are followed by an instance of the next declaration
C20_Witness ==
    /\ status = "done"
    /\ \E m \in SequenceNodes : \E i, j, k \in DOMAIN elems :
          /\ i < j /\ j < k
          /\ elems[i].parent = elems[j].parent /\ elems[j].parent = elems[k].parent
          /\ elems[i].decl = elems[j].decl
          /\ elems[i].decl \in ElementsOf(m) /\ elems[k].decl \in ElementsOf(m)
          /\ Position(m, elems[j].decl) < Position(m, elems[k].decl)

(***************************************************************************)
(* C21: an xs:group reference in a sequence / all and an xs:attributeGroup *)
(* reference in a type definition are reported and otherwise ignored.  An  *)
(* element built from a type with such references never has a child or an  *)
(* attribute other than those of the type's own element and attribute      *)
(* declarations, no error is raised, and in the finished document it has   *)
(* exactly the attributes and the children it would have without the       *)
(* references, and no text.                                                *)
(***************************************************************************)
References(t) ==
    {r \in Descendants(t) : schema[r].tag \in {"group", "attributeGroup"}
                              /\ schema[r].ref # NoAttr}

ChildrenOf(i) == {j \in DOMAIN elems : elems[j].parent = i}

C21_ReferencesIgnored ==
    \A i \in DOMAIN elems :
        (elems[i].decl # NoNode /\ NonBuiltIn(elems[i].decl))
        => \A t \in ComplexTypeNamed(schema[elems[i].decl].type) :
             References(t) # {}
             => /\ err = None
                /\ DOMAIN elems[i].attrib \subseteq {schema[a].name : a \in AttributesOf(t)}
                /\ {elems[j].decl : j \in ChildrenOf(i)}
                      \subseteq ContentElements(t, {"sequence", "all"})
                /\ elems[i].text = None
                /\ status = "done"
                     => /\ DOMAIN elems[i].attrib = {schema[a].name : a \in AttributesOf(t)}
                        /\ {elems[j].decl : j \in ChildrenOf(i)}
                              = ContentElements(t, {"sequence", "all"})
                        /\ "Warning: xs:group not resolved" \in log
                        /\ "Warning: xs:attributeGroup not resolved" \in log

\* a finished document whose root declaration's type holds a group reference
\* between two element declarations and an attributeGroup reference: both
\* elements and the type's own attribute are there
C21_Witness ==
    /\ status = "done"
    /\ \E i \in DOMAIN elems :
          /\ elems[i].decl # NoNode
          /\ NonBuiltIn(elems[i].decl)
          /\ \E t \in ComplexTypeNamed(schema[elems[i].decl].type) :
                /\ Cardinality({schema[r].tag : r \in References(t)}) = 2
                /\ Cardinality(ChildrenOf(i)) = 2
                /\ DOMAIN elems[i].attrib # {}

(***************************************************************************)
(* C22: when the text of an element comes from a simple-type restriction   *)
(* with enumeration facets (the restriction of a global simple type, of an *)
(* inline simpleType, or of the simpleContent of the element's type), the  *)
(* text is one of the enumerated values, whether the base of the           *)
(* restriction is built-in or not.  For a base that starts with xs: the    *)
(* code synthesizes a value of the base type and never looks at the        *)
(* facets: TLC finds this formula violated.                                *)
(***************************************************************************)
\* the simple-type restrictions the text of an instance of d comes from
TextRestrictions(d) ==
    LET global == TypeNamed(schema[d].type)
        simple == {t \in global : schema[t].tag = "simpleType"} \cup Child(d, {"simpleType"})
        complex == {t \in global : schema[t].tag = "complexType"} \cup Child(d, {"complexType"})
    IN  UNION {Child(t, {"restriction"}) : t \in simple}
        \cup UNION {Child(sc, {"restriction"}) :
                      sc \in UNION {Child(t, {"simpleContent"}) : t \in complex}}

Enumerated(r) == {schema[f].value : f \in Child(r, {"enumeration"})}

C22_EnumeratedText ==
    \A i \in DOMAIN elems :
        (elems[i].decl # NoNode /\ elems[i].text # None /\ ~BuiltIn(elems[i].decl))
        => \A r \in TextRestrictions(elems[i].decl) :
              Enumerated(r) # {} => elems[i].text \in Enumerated(r)

(***************************************************************************)
(* C23: in every state of a run no generated element has both text and     *)
(* element children: an element with text has no children, and an element  *)
(* built from a type with simpleContent (global or inline) has none.       *)
(***************************************************************************)
HasSimpleContent(d) ==
    \E t \in {t \in TypeNamed(schema[d].type) : schema[t].tag = "complexType"}
             \cup Child(d, {"complexType"}) :
        Child(t, {"simpleContent"}) # {}

C23_TextOrChildren ==
    \A i \in DOMAIN elems :
        /\ elems[i].text # None => ChildrenOf(i) = {}
        /\ (elems[i].decl # NoNode /\ ~BuiltIn(elems[i].decl) /\ HasSimpleContent(elems[i].decl))
             => ChildrenOf(i) = {}

\* a finished document with an element that has a child and no text, the
\* child being of a simpleContent type with text and an attribute
C23_Witness ==
    /\ status = "done"
    /\ \E i, j \in DOMAIN elems :
          /\ elems[j].parent = i
          /\ elems[i].parent # 0
          /\ elems[i].text = None
          /\ HasSimpleContent(elems[j].decl)
          /\ elems[j].text # None
          /\ DOMAIN elems[j].attrib # {}

(***************************************************************************)
(* C24: for an element declaration without a name (one that only carries a *)
(* ref included) the call of the element generator returns at once: no     *)
(* instance is ever made for it, the step leaves the tree as it was, and   *)
(* the declarations after it in the same sequence / all are handed to the  *)
(* element generator and, when required, have their instances in the       *)
(* finished document.                                                      *)
(***************************************************************************)
Followers(d) ==
    UNION {{f \in ElementsOf(m) : Position(m, f) > Position(m, d)} :
             m \in {m \in SequenceNodes : d \in ElementsOf(m)}}

GlobalsTagged(tag) == {k \in GlobalTypes : schema[k].tag = tag}

Indexes(registry, tag) ==
    /\ DOMAIN registry = {schema[k].name : k \in GlobalsTagged(tag)}
    /\ \A nm \in DOMAIN registry :
          registry[nm] \in GlobalsTagged(tag) /\ schema[registry[nm]].name = nm

C25_Registry ==
    /\ Indexes(complex_types, "complexType")
    /\ Indexes(simple_types, "simpleType")
    /\ \A i \in DOMAIN elems :
          (elems[i].decl # NoNode /\ NonBuiltIn(elems[i].decl)
             /\ TypeNamed(schema[elems[i].decl].type) = {})
          => /\ _get_type_definition(AsName(_get_xsd_type_name(elems[i].decl).value)) = NoNode
             /\ err = None
             /\ elems[i].text # None

\* a finished document of a schema with global complex and simple types and
\* inline definitions, in which an element names a type that is not indexed
C25_Witness ==
    /\ status = "done"
    /\ DOMAIN complex_types # {}
    /\ DOMAIN simple_types # {}
    /\ \E k \in DOMAIN schema :
          schema[k].tag = "complexType" /\ schema[k].name = None
    /\ \E i \in DOMAIN elems :
          /\ elems[i].decl # NoNode
          /\ NonBuiltIn(elems[i].decl)
          /\ TypeNamed(schema[elems[i].decl].type) = {}

(***************************************************************************)
(* C26: once the generator is constructed no step changes the schema       *)
(* document or either registry: they are the same before and after every   *)
(* step, within a generate_xml call and from one call to the next, and the *)
(* registries stay what the scan of the schema root gave.                  *)
(***************************************************************************)
C26_SchemaReadOnly ==
    /\ [](/\ schema \in Schemas
          /\ Indexes(complex_types, "complexType")
          /\ Indexes(simple_types, "simpleType"))
    /\ [][/\ schema' = schema
          /\ complex_types' = complex_types
          /\ simple_types' = simple_types]_vars

\* a second generate_xml call on one generator has returned its document, the
\* first one having returned one too, on a schema with types in both registries
C26_Witness ==
    /\ runs = 2
    /\ status = "done"
    /\ previous.tree # <<>>
    /\ Len(elems) > 2
    /\ DOMAIN complex_types # {}
    /\ DOMAIN simple_types # {}

(***************************************************************************)
(* C27: an instance of an element whose type is an inline complexType      *)
(* carries every named attribute declared as a direct child of that        *)
(* complexType, as it would for a global named type.  The code looks for   *)
(* xs:attribute children of the xs:element, not of its complexType: TLC    *)
(* finds this formula violated.                                            *)
(***************************************************************************)
InlineComplexType(d) == find(d, "complexType")

C27_InlineAttributes ==
    \A i \in DOMAIN elems :
        (/\ elems[i].decl # NoNode
         /\ GlobalTypeOf(elems[i].decl) = NoNode
         /\ InlineComplexType(elems[i].decl) # NoNode)
        => \A a \in AttributesOf(InlineComplexType(elems[i].decl)) :
              schema[a].name \in DOMAIN elems[i].attrib

(***************************************************************************)
(* C28: elements are created in one depth-first traversal.  Once the loop  *)
(* iteration that created an instance has completed (no call working on    *)
(* the instance or on anything below it is active), no later step of the   *)
(* run changes its tag, attributes or text or adds a descendant; and a new *)
(* element is created under a parent only when the subtree of every        *)
(* earlier child of that parent is complete.                               *)
(***************************************************************************)
RECURSIVE SubtreeOf(_)
SubtreeOf(i) == {i} \cup UNION {SubtreeOf(j) : j \in ChildrenOf(i)}

Open(i) == \E k \in DOMAIN stack : stack[k].parent = i

Completed(i) == \A x \in SubtreeOf(i) : ~Open(x)

Created == DOMAIN elems' \ DOMAIN elems

C28_NoLateMutation ==
    [][runs' = runs =>
        /\ \A i \in DOMAIN elems :
              Completed(i) => /\ i \in DOMAIN elems'
                              /\ elems'[i] = elems[i]
                              /\ \A j \in Created : elems'[j].parent # i
        /\ \A j \in Created : \A s \in DOMAIN elems :
              elems[s].parent = elems'[j].parent => Completed(s)]_vars

\* an instance with children of its own is complete and a later sibling of it
\* has been created
C28_Witness ==
    /\ err = None
    /\ \E i, j \in DOMAIN elems :
          /\ i < j
          /\ elems[i].parent = elems[j].parent
          /\ ChildrenOf(i) # {}
          /\ Completed(i)

(***************************************************************************)
(* C29: generate_xml creates a root element named after the selected root  *)
(* declaration and runs the element generator with it as the parent.  The  *)
(* root element itself never has attributes or text; its children are      *)
(* instances of the root declaration, of the root's name; and when a run   *)
(* on a root declaration of default occurrence has returned, the root has  *)
(* exactly one child, under which the element declarations of the root     *)
(* declaration's type were generated.                                      *)
(***************************************************************************)
DefaultOccurrence(d) == schema[d].minOccurs = None /\ schema[d].maxOccurs = None

TypeOf(d) ==
    IF GlobalTypeOf(d) # NoNode THEN GlobalTypeOf(d) ELSE InlineComplexType(d)

C29_RootWrapper ==
    elems # <<>>
    => /\ elems[1].parent = 0
       /\ elems[1].decl = NoNode
       /\ elems[1].tag = schema[ExpectedRoot].name
       /\ elems[1].attrib = NoAttributes
       /\ elems[1].text = None
       /\ \A j \in ChildrenOf(1) : /\ elems[j].decl = ExpectedRoot
                                   /\ elems[j].tag = elems[1].tag
       /\ (status = "done" /\ DefaultOccurrence(ExpectedRoot))
          => /\ Cardinality(ChildrenOf(1)) = 1
             /\ \A j \in ChildrenOf(1) :
                   TypeOf(ExpectedRoot) # NoNode
                   => \A m \in Child(TypeOf(ExpectedRoot), {"sequence", "all"}) :
                         \A d \in ElementsOf(m) : <<j, d>> \in calls

\* a run has returned on a root declaration whose type has a sequence: the root
\* has its one child and that child has children of its own
C29_Witness ==
    /\ status = "done"
    /\ DefaultOccurrence(ExpectedRoot)
    /\ TypeOf(ExpectedRoot) # NoNode
    /\ \E j \in ChildrenOf(1) : ChildrenOf(j) # {} /\ elems[j].attrib # NoAttributes

(***************************************************************************)
(* C30: expanding a sequence or an all generates its direct element        *)
(* declarations only: a declaration inside a sequence, choice or all that  *)
(* is itself nested in a content model is never passed to the element      *)
(* generator and has no instance.  Expanding a choice considers only its   *)
(* first direct element declaration, so an element whose type is a choice  *)
(* with nested models only has no child when the run has returned.         *)
(***************************************************************************)
ModelNodes == {n \in DOMAIN schema : schema[n].tag \in {"sequence", "all", "choice"}}

NestedModels == {m \in ModelNodes : \E p \in ModelNodes : m \in Child(p, {"sequence", "all", "choice"})}

NestedDecls == UNION {ElementsOf(m) : m \in NestedModels}

C30_DirectElementsOnly ==
    /\ \A c \in calls : c[2] \notin NestedDecls
    /\ \A i \in DOMAIN elems : elems[i].decl \notin NestedDecls
    /\ \A c \in ChoiceNodes : \A k \in calls :
          k[2] \in ElementsOf(c) => k[2] = FirstAlternative(c)
    /\ status = "done"
       => \A i \in DOMAIN elems :
             (elems[i].decl # NoNode /\ TypeOf(elems[i].decl) # NoNode)
             => /\ \A m \in Child(TypeOf(elems[i].decl), {"sequence", "all"}) :
                      \A d \in ElementsOf(m) : <<i, d>> \in calls
                /\ \A m \in Child(TypeOf(elems[i].decl), {"choice"}) :
                      IF ElementsOf(m) = {}
                      THEN ChildrenOf(i) = {}
                      ELSE \A j \in ChildrenOf(i) :
                              elems[j].decl = FirstAlternative(m)

\* a run has returned on a schema with nested content models: the elements
\* before and after the nested models are there, the choice of nested models
\* gave a childless element and the mixed choice its first direct element
C30_Witness ==
    /\ status = "done"
    /\ NestedModels # {}
    /\ \E a, b, p, x \in DOMAIN elems :
          /\ a < p /\ p < b
          /\ elems[a].parent = elems[b].parent
          /\ elems[p].parent = elems[a].parent
          /\ elems[p].tag = "Pick" /\ ChildrenOf(p) = {}
          /\ elems[x].tag = "C1"

====
